---- MODULE Spec2Model ----
(***************************************************************************)
(* A model of the streamr network core: the WebSocket endpoint             *)
(* (connection/WsEndpoint.js) and the resend handler                       *)
(* (src/resend/ResendHandler.js).                                          *)
(*                                                                         *)
(* A socket of the endpoint model has two ends.  The client end is the     *)
(* ws-library object held by the endpoint that dialled; the server end is  *)
(* the uWS object held by the endpoint that accepted.  The state of an end *)
(* is one of                                                               *)
(*   "none"        not created yet                                         *)
(*   "connecting"  (client) dialled, open event not handled yet            *)
(*   "open"        open on this end                                        *)
(*   "rclosing"    the other end closed; this end's close event is still   *)
(*                 to be handled (locally the end still looks open)        *)
(*   "lclosing"    (client) closed locally; its close event is still to    *)
(*                 be handled                                              *)
(*   "closed"      the close event of this end has been handled            *)
(* The uWS library calls the close handler of an end that is closed        *)
(* locally at once, inside the closing call; the ws library emits the      *)
(* close event of a client end later, from the event loop.                 *)
(***************************************************************************)
EXTENDS Integers, Sequences, FiniteSets, TLC

\* ------------------------------------------------------------------------
\* State
\* ------------------------------------------------------------------------

\* the endpoints (connection/WsEndpoint.js)
VARIABLES
    conn,      \* conn[e][a]: this.connections of endpoint e, NoSock when absent
    pend,      \* pend[e]: keys of this.pendingConnections of endpoint e
    book,      \* book[e]: addresses known to this.peerBook of endpoint e
    sock,      \* sock[s]: the two ends of socket s
    nsock,     \* sockets dialled so far
    emitted,   \* events emitted by the last handler, in order
    stopped,   \* stopped[e]: "no", "grace" (stop() called, its timer armed) or
               \* "done" (the promise of stop() settled)
    sent,      \* the call of send() the last step was, NoSend otherwise
    lastEvent, \* lastEvent[e][a]: the last of PEER_CONNECTED and PEER_DISCONNECTED
               \* endpoint e has emitted for address a, "none" before any
    deferred   \* the sockets whose client end has a call of onReceive queued
               \* with setImmediate

wsVars == <<conn, pend, book, sock, nsock, emitted, stopped, sent, lastEvent, deferred>>

\* the resend handler (src/resend/ResendHandler.js)
VARIABLES
    req,       \* req[r]: the context and the request stream of request r
    resends,   \* ongoingResends.resends: source -> contexts, keys as DOMAIN
    errs,      \* the calls of notifyError so far
    returned,  \* <<node, requests>> when the last step was cancelResendsOfNode(node)
               \* returning requests, else <<>>
    nreq,      \* requests handled so far
    strategiesStopped  \* the strategies whose stop() has been called

resendVars == <<req, resends, errs, returned, nreq, strategiesStopped>>

\* the back pressure of connections (connection/WsEndpoint.js)
VARIABLES
    wsb,       \* wsb[c]: bufferedAmount, highBackPressure and liveness of ws c
    bpLast     \* the last operation, the connection it was on, the events it emitted

bpVars == <<wsb, bpLast>>

\* the topology manager of the tracker
VARIABLES
    overlays,  \* stream key -> overlay; an overlay is the sequence, in the order
               \* of insertion, of its nodes with their neighbour sets
    tcount,    \* tcount[k]: the instruction counter of stream key k
    instrs     \* the instructions of the last step

\* the node engine
VARIABLES
    engine, \* engine[n]: the streams of node n (a function of its subscribed keys),
            \* its connected neighbours, the messages given to its local
            \* subscriber, the peers of its NODE_DISCONNECTED events and the
            \* messages it has published
    chan,   \* chan[a][b]: the messages in flight on the socket from a to b
    npub    \* the number of publish calls

\* the protocol adapters
VARIABLES
    wire,    \* the frames the endpoints have in flight
    events,  \* the events the adapters have emitted
    posted   \* the control messages given to the adapters

logicVars == <<overlays, tcount, instrs, engine, chan, npub, wire, events, posted>>

vars == <<wsVars, resendVars, bpVars, logicVars>>

\* ------------------------------------------------------------------------
\* Bounds of the model
\* ------------------------------------------------------------------------

\* sockets ever dialled
MaxSockets == 3

\* advertised URLs of the endpoints, ordered as localeCompare orders them
Peers == {1, 2, 3}

\* the endpoints that call connect() and close() in SpecWs
Active == {1, 2}

NoSock == 0
SockIds == 1..MaxSockets

\* ------------------------------------------------------------------------
\* Program constants (connection/WsEndpoint.js)
\* ------------------------------------------------------------------------

PEER_CONNECTED == "streamr:peer:connect"
PEER_DISCONNECTED == "streamr:peer:disconnect"
MESSAGE_RECEIVED == "streamr:message-received"

GRACEFUL_SHUTDOWN == "streamr:node:graceful-shutdown"
DUPLICATE_SOCKET == "streamr:endpoint:duplicate-connection"
NO_SHARED_STREAMS == "streamr:node:no-shared-streams"
MISSING_REQUIRED_PARAMETER == "streamr:node:missing-required-parameter"
DEAD_CONNECTION == "streamr:endpoint:dead-connection"

\* disconnectionCodes
CODE_GRACEFUL_SHUTDOWN == 1000
CODE_DUPLICATE_SOCKET == 1002
CODE_MISSING_REQUIRED_PARAMETER == 1002
CODE_DEAD_CONNECTION == 1002
\* the code of a close that carried no close frame
CODE_ABNORMAL == 1006

\* e.toString() of the errors _onIncomingConnection throws
ADDRESS_NOT_GIVEN == "Error: address not given"
PEER_ID_NOT_GIVEN == "Error: peerId not given"
PEER_TYPE_NOT_GIVEN == "Error: peerType not given"
\* the reason of a close that carried no close frame (code 1006)
NO_REASON == ""

\* lacks tells what the upgrade of the socket lacks: "address", "peerId" or
\* "peerType" (the request of a client that is not an endpoint), "headers" (the
\* response of a server that is not an endpoint) or "none"; ccode and scode are
\* the close codes the ends have seen, 0 before any
NoSocket ==
    [from |-> 0, to |-> 0, cst |-> "none", sst |-> "none",
     crs |-> NO_REASON, srs |-> NO_REASON, ccode |-> 0, scode |-> 0,
     cpong |-> "undef", spong |-> "undef", sping |-> FALSE,
     cl |-> "none", res |-> "none", lacks |-> "none"]

NoSend == [at |-> 0, to |-> 0, ws |-> 0, out |-> "none"]

World ==
    [conn |-> conn, pend |-> pend, book |-> book, sock |-> sock, emitted |-> <<>>,
     stopped |-> stopped, sent |-> NoSend, lastEvent |-> lastEvent,
     deferred |-> deferred]

Emit(w, e, ev, a, reason) ==
    [w EXCEPT !.emitted = Append(@, [at |-> e, ev |-> ev, peer |-> a, reason |-> reason]),
              !.lastEvent = IF ev \in {PEER_CONNECTED, PEER_DISCONNECTED} /\ a \in Peers
                            THEN [@ EXCEPT ![e][a] = ev]
                            ELSE @]

\* an end looks open to the endpoint that holds it
LocallyOpen(st) == st \in {"open", "rclosing"}

\* the socket is open on both ends
SocketOpen(sk) == sk.cst = "open" /\ sk.sst = "open"

\* the comparison of advertised URLs in the reverse order
localeCompareReversed(a, b) == IF a < b THEN 1 ELSE IF a > b THEN 0 - 1 ELSE 0

\* String.prototype.localeCompare on advertised URLs
localeCompare(a, b) == IF a > b THEN 1 ELSE IF a < b THEN 0 - 1 ELSE 0

isConnected(w, e, a) == w.conn[e][a] # NoSock

\* _onClose
onClose(w, e, a, reason) ==
    IF reason = DUPLICATE_SOCKET
    THEN w
    ELSE Emit([w EXCEPT !.conn[e][a] = NoSock], e, PEER_DISCONNECTED, a, reason)

\* the uWS close handler of the constructor, for the server end of socket s
uwsCloseHandler(w, s, reason) ==
    LET e == w.sock[s].to
        a == w.sock[s].from
    IN  IF a \in Peers /\ w.conn[e][a] # NoSock
        THEN onClose(Emit(w, e, "close", a, reason), e, a, reason)
        ELSE w

\* the close listener _addListeners puts on the client end of socket s
wsCloseListener(w, s, reason) ==
    LET e == w.sock[s].from
        a == w.sock[s].to
    IN  IF reason = DUPLICATE_SOCKET THEN w ELSE onClose(w, e, a, reason)

\* ws-library close(code, reason) on the client end of s: a close frame is sent,
\* the close event follows later with the reason the server echoes
wsLibClose(w, s, code, reason, why) ==
    LET sk == w.sock[s]
    IN  IF sk.cst = "open"
        THEN [w EXCEPT !.sock[s] =
                [sk EXCEPT !.cst = "lclosing", !.crs = reason, !.ccode = code,
                           !.sst = IF sk.sst = "open" THEN "rclosing" ELSE @,
                           !.srs = IF sk.sst = "open" THEN reason ELSE @,
                           !.scode = IF sk.sst = "open" THEN code ELSE @,
                           !.cl = IF @ = "none" THEN why ELSE @]]
        ELSE IF sk.cst = "rclosing"
        THEN [w EXCEPT !.sock[s] = [sk EXCEPT !.cst = "lclosing"]]
        ELSE w

\* ws-library terminate() on the client end of s: the connection is destroyed
wsLibTerminate(w, s, why) ==
    LET sk == w.sock[s]
    IN  IF sk.cst = "open"
        THEN [w EXCEPT !.sock[s] =
                [sk EXCEPT !.cst = "lclosing", !.crs = NO_REASON, !.ccode = CODE_ABNORMAL,
                           !.sst = IF sk.sst = "open" THEN "rclosing" ELSE @,
                           !.srs = IF sk.sst = "open" THEN NO_REASON ELSE @,
                           !.scode = IF sk.sst = "open" THEN CODE_ABNORMAL ELSE @,
                           !.cl = IF @ = "none" THEN why ELSE @]]
        ELSE IF sk.cst = "rclosing"
        THEN [w EXCEPT !.sock[s] = [sk EXCEPT !.cst = "lclosing"]]
        ELSE w

\* what the client end of a socket sees when its server end closes
ClientAfterServerClose(sk, code, reason) ==
    IF sk.cst = "open"
    THEN [sk EXCEPT !.cst = "rclosing", !.crs = reason, !.ccode = code]
    ELSE sk

\* uWS end(code, reason) on the server end of s: a close frame is sent and the
\* close handler is called at once.  A closed uWS socket throws on access.
uwsEnd(w, s, code, reason, why) ==
    LET sk == w.sock[s]
    IN  IF LocallyOpen(sk.sst)
        THEN uwsCloseHandler(
                [w EXCEPT !.sock[s] =
                    ClientAfterServerClose(
                        [sk EXCEPT !.sst = "closed", !.srs = reason, !.scode = code,
                                   !.cl = IF @ = "none" THEN why ELSE @], code, reason)],
                s, reason)
        ELSE w

\* uWS close() on the server end of s: the forceful close of the library (the
\* one terminateWs uses), no close frame is sent, arguments are ignored
uwsClose(w, s, why) == uwsEnd(w, s, CODE_ABNORMAL, NO_REASON, why)

\* closeWs
closeWs(w, e, s, code, reason, why) ==
    IF w.sock[s].from = e
    THEN wsLibClose(w, s, code, reason, why)
    ELSE uwsEnd(w, s, code, reason, why)

\* terminateWs
terminateWs(w, e, s, why) ==
    IF w.sock[s].from = e
    THEN wsLibTerminate(w, s, why)
    ELSE uwsClose(w, s, why)

\* _onNewConnection registering the socket it has closed as a duplicate
onNewConnectionKeeping(w, e, s, a, out) ==
    IF isConnected(w, e, a) /\ localeCompare(e, a) = 1
    THEN [w |-> [closeWs(w, e, s, CODE_DUPLICATE_SOCKET, DUPLICATE_SOCKET, "tiebreak")
                    EXCEPT !.conn[e][a] = s],
          ok |-> FALSE]
    ELSE [w |-> Emit([w EXCEPT !.book[e] = @ \cup {a}, !.conn[e][a] = s],
                     e, PEER_CONNECTED, a, NO_REASON),
          ok |-> TRUE]

\* _onNewConnection; .ok is its return value
onNewConnection(w, e, s, a, out) ==
    IF isConnected(w, e, a) /\ localeCompare(e, a) = 1
    THEN [w |-> closeWs(w, e, s, CODE_DUPLICATE_SOCKET, DUPLICATE_SOCKET, "tiebreak"), ok |-> FALSE]
    ELSE [w |-> Emit([w EXCEPT !.book[e] = @ \cup {a}, !.conn[e][a] = s],
                     e, PEER_CONNECTED, a, NO_REASON),
          ok |-> TRUE]

\* e.toString() of the error _onIncomingConnection throws for what is missing
ErrorText(lacks) ==
    IF lacks = "address" THEN ADDRESS_NOT_GIVEN
    ELSE IF lacks = "peerId" THEN PEER_ID_NOT_GIVEN
    ELSE PEER_TYPE_NOT_GIVEN

\* _onIncomingConnection closing with the reason constant
onIncomingConnectionByConstant(w, s) ==
    LET e == w.sock[s].to
        a == w.sock[s].from
    IN  IF w.sock[s].lacks \in {"address", "peerId", "peerType"}
        THEN closeWs(w, e, s, CODE_MISSING_REQUIRED_PARAMETER,
                     MISSING_REQUIRED_PARAMETER, "missing")
        ELSE IF isConnected(w, e, a)
        THEN uwsClose(w, s, "reject")
        ELSE onNewConnection(Emit(w, e, "connection", a, NO_REASON), e, s, a, FALSE).w

\* _onIncomingConnection
onIncomingConnection(w, s) ==
    LET e == w.sock[s].to
        a == w.sock[s].from
    IN  IF w.sock[s].lacks \in {"address", "peerId", "peerType"}
        THEN closeWs(w, e, s, CODE_MISSING_REQUIRED_PARAMETER,
                     ErrorText(w.sock[s].lacks), "missing")
        ELSE IF isConnected(w, e, a)
        THEN uwsClose(w, s, "reject")
        ELSE onNewConnection(Emit(w, e, "connection", a, NO_REASON), e, s, a, FALSE).w

Commit(w) ==
    /\ conn' = w.conn
    /\ pend' = w.pend
    /\ book' = w.book
    /\ sock' = w.sock
    /\ emitted' = w.emitted
    /\ stopped' = w.stopped
    /\ sent' = w.sent
    /\ lastEvent' = w.lastEvent
    /\ deferred' = w.deferred
    /\ UNCHANGED <<resendVars, bpVars, logicVars>>

\* ws.readyState === ws.OPEN as connect() reads it; a uWS socket has neither
\* property, so the comparison is undefined === undefined
readyStateOpen(w, e, s) ==
    IF w.sock[s].from = e THEN LocallyOpen(w.sock[s].cst) ELSE TRUE

\* close(recipientId, reason), for a recipient the peer book knows
close(w, e, a, reason) ==
    IF ~isConnected(w, e, a)
    THEN w
    ELSE closeWs(w, e, w.conn[e][a], CODE_GRACEFUL_SHUTDOWN, reason, "api")

\* connect(peerAddress) dialling whether a dial is pending or not
ConnectAgain(e, a) ==
    LET w0 == World
        open == isConnected(w0, e, a) /\ readyStateOpen(w0, e, w0.conn[e][a])
        w1 == IF isConnected(w0, e, a) /\ ~open
              THEN close(w0, e, a, GRACEFUL_SHUTDOWN)
              ELSE w0
        s == nsock + 1
    IN  IF open \/ a = e
        THEN Commit(w1) /\ nsock' = nsock
        ELSE /\ nsock < MaxSockets
             /\ Commit([w1 EXCEPT
                    !.pend[e] = @ \cup {a},
                    !.sock[s] = [NoSocket EXCEPT !.from = e, !.to = a,
                                                 !.cst = "connecting", !.res = "pending"]])
             /\ nsock' = s

\* connect(peerAddress)
Connect(e, a) ==
    LET w0 == World
        open == isConnected(w0, e, a) /\ readyStateOpen(w0, e, w0.conn[e][a])
        w1 == IF isConnected(w0, e, a) /\ ~open
              THEN close(w0, e, a, GRACEFUL_SHUTDOWN)
              ELSE w0
        s == nsock + 1
    IN  IF open \/ a = e \/ a \in pend[e]
        THEN Commit(w1) /\ nsock' = nsock
        ELSE /\ nsock < MaxSockets
             /\ Commit([w1 EXCEPT
                    !.pend[e] = @ \cup {a},
                    !.sock[s] = [NoSocket EXCEPT !.from = e, !.to = a,
                                                 !.cst = "connecting", !.res = "pending"]])
             /\ nsock' = s

\* close(recipientId, reason) called by the layer above
Close(e, a, reason) ==
    /\ a \in book[e]
    /\ Commit(close(World, e, a, reason))
    /\ nsock' = nsock

\* the server's upgrade and open handlers for socket s
Accept(s) ==
    /\ sock[s].cst = "connecting"
    /\ sock[s].sst = "none"
    /\ stopped[sock[s].to] = "no"
    /\ Commit(onIncomingConnection([World EXCEPT !.sock[s].sst = "open"], s))
    /\ nsock' = nsock

\* the open handler of connect() for socket s, and the finally of the promise
ClientOpen(s) ==
    /\ sock[s].cst = "connecting"
    /\ sock[s].sst # "none"
    /\ LET e == sock[s].from
           a == sock[s].to
           sk == sock[s]
           w0 == [World EXCEPT !.sock[s] =
                    IF sk.sst = "open"
                    THEN [sk EXCEPT !.cst = "open"]
                    ELSE [sk EXCEPT !.cst = "rclosing", !.crs = sk.srs,
                                    !.ccode = sk.scode]]
           r == onNewConnection(w0, e, s, a, TRUE)
       IN  IF sk.lacks = "headers"
           THEN Commit([terminateWs(w0, e, s, "headers") EXCEPT
                            !.pend[e] = @ \ {a},
                            !.sock[s].res = "rejected"])
           ELSE Commit([r.w EXCEPT !.pend[e] = @ \ {a},
                                   !.sock[s].res = IF r.ok THEN "resolved" ELSE "rejected"])
    /\ nsock' = nsock

\* the error handler of connect() for socket s: the dial fails
ConnectError(s) ==
    /\ sock[s].cst = "connecting"
    /\ sock[s].sst = "none"
    /\ Commit([World EXCEPT !.pend[sock[s].from] = @ \ {sock[s].to},
                            !.sock[s].cst = "closed",
                            !.sock[s].res = "rejected"])
    /\ nsock' = nsock

\* the close event of the client end of socket s
ClientCloseEvent(s) ==
    /\ sock[s].cst \in {"rclosing", "lclosing"}
    /\ LET w0 == [World EXCEPT !.sock[s].cst = "closed"]
       IN  Commit(IF sock[s].lacks = "none"
                  THEN wsCloseListener(w0, s, sock[s].crs)
                  ELSE w0)
    /\ nsock' = nsock

\* the close of the server end of socket s, started by the client end
ServerCloseEvent(s) ==
    /\ sock[s].sst = "rclosing"
    /\ LET w0 == [World EXCEPT !.sock[s].sst = "closed"]
       IN  Commit(IF sock[s].lacks = "headers"
                  THEN w0
                  ELSE uwsCloseHandler(w0, s, sock[s].srs))
    /\ nsock' = nsock

\* a round that pings whatever respondedPong is
pingOneForgiving(w, e, a) ==
    LET s == w.conn[e][a]
    IN  IF w.sock[s].from = e
        THEN [w EXCEPT !.sock[s].cpong = "no"]
        ELSE [w EXCEPT !.sock[s].spong = "no", !.sock[s].sping = TRUE]

\* one round of the forEach of _pingConnections
pingOne(w, e, a) ==
    LET s == w.conn[e][a]
        sk == w.sock[s]
        client == sk.from = e
        pong == IF client THEN sk.cpong ELSE sk.spong
        dead(v) == onClose(terminateWs(v, e, s, "dead"), e, a, DEAD_CONNECTION)
        pinged == IF client
                  THEN [w EXCEPT !.sock[s].cpong = "no"]
                  ELSE [w EXCEPT !.sock[s].spong = "no", !.sock[s].sping = TRUE]
    IN  IF pong = "no"
        THEN dead(w)
        ELSE IF ~client /\ sk.sst = "closed"
        THEN dead([w EXCEPT !.sock[s].spong = "no"])
        ELSE pinged

RECURSIVE pingEach(_, _, _)
pingEach(w, e, todo) ==
    IF todo = {}
    THEN w
    ELSE LET a == CHOOSE x \in todo : \A y \in todo : x <= y
         IN  pingEach(pingOne(w, e, a), e, todo \ {a})

\* _pingConnections
pingConnections(w, e) == pingEach(w, e, {a \in Peers : w.conn[e][a] # NoSock})

\* the liveness timer fires at endpoint e
PingTick(e) ==
    /\ stopped[e] = "no"
    /\ Commit(pingConnections(World, e))
    /\ nsock' = nsock

\* the pong listener _addListeners puts on the client end of socket s
PongClient(s) ==
    /\ sock[s].cpong = "no"
    /\ LocallyOpen(sock[s].cst)
    /\ LocallyOpen(sock[s].sst)
    /\ Commit([World EXCEPT !.sock[s].cpong = "yes"])
    /\ nsock' = nsock

\* the uWS pong handler of the constructor, for the server end of socket s
PongServer(s) ==
    /\ sock[s].sping
    /\ LocallyOpen(sock[s].sst)
    /\ LocallyOpen(sock[s].cst)
    /\ LET e == sock[s].to
           c == conn[e][sock[s].from]
           w0 == [World EXCEPT !.sock[s].sping = FALSE]
       IN  Commit(IF c = NoSock
                  THEN w0
                  ELSE IF w0.sock[c].to = e
                  THEN [w0 EXCEPT !.sock[c].spong = "yes"]
                  ELSE [w0 EXCEPT !.sock[c].cpong = "yes"])
    /\ nsock' = nsock

\* the message listener _addListeners puts on the client end of socket s: a
\* frame the peer has sent with send() arrives and onReceive is queued with
\* setImmediate.  The listener is there from the open event on, also when
\* _onNewConnection has closed the socket as a duplicate, and until the close
\* reply of the peer arrives
ClientMessage(s) ==
    /\ sock[s].lacks = "none"
    /\ sock[s].cst = "open" \/ (sock[s].cst = "lclosing" /\ sock[s].cl = "tiebreak")
    /\ sock[s].sst = "open"
    /\ conn[sock[s].to][sock[s].from] = s
    /\ Commit([World EXCEPT !.deferred = @ \cup {s}])
    /\ nsock' = nsock

\* the call of onReceive that the message listener of the client end of
\* socket s has queued
DeferredReceive(s) ==
    /\ s \in deferred
    /\ Commit(Emit([World EXCEPT !.deferred = @ \ {s}],
                   sock[s].from, MESSAGE_RECEIVED, sock[s].to, NO_REASON))
    /\ nsock' = nsock

\* the uWS message handler of the constructor, for the server end of socket s:
\* a frame the peer has sent with send() arrives
ServerMessage(s) ==
    /\ sock[s].lacks = "none"
    /\ sock[s].sst = "open"
    /\ sock[s].cst = "open"
    /\ conn[sock[s].from][sock[s].to] = s
    /\ LET e == sock[s].to
           a == sock[s].from
       IN  Commit(IF World.conn[e][a] # NoSock
                  THEN Emit(World, e, MESSAGE_RECEIVED, a, NO_REASON)
                  ELSE World)
    /\ nsock' = nsock

\* what ws.send(message) can do on the end of socket s that endpoint e holds:
\* "sent", "raise" (it throws) or "cberr" (the completion callback of the ws
\* library gets an error).  A closed uWS socket throws on access; the ws
\* library reports a send on a socket that is not open, and a failed write,
\* to the callback.
SendOutcomes(w, e, s) ==
    IF w.sock[s].from = e
    THEN IF LocallyOpen(w.sock[s].cst) THEN {"sent", "cberr"} ELSE {"cberr"}
    ELSE IF LocallyOpen(w.sock[s].sst) THEN {"sent"} ELSE {"raise"}

\* _socketSend, o being what ws.send does
socketSend(w, e, a, s, o) ==
    [(IF o = "raise" THEN terminateWs(w, e, s, "send") ELSE w)
        EXCEPT !.sent = [at |-> e, to |-> a, ws |-> s, out |-> o]]

\* the promise of send() after the call and the completion callback of ws.send:
\* onSuccess resolves it, the error of the callback and the missing connection
\* reject it, the catch of _socketSend calls neither callback
sendPromise(out) ==
    IF out = "sent" THEN "resolved"
    ELSE IF out \in {"cberr", "notConnected"} THEN "rejected"
    ELSE "pending"

\* send() attempting the send whether connected or not
sendAnyway(w, e, a, o) ==
    [(IF isConnected(w, e, a) THEN w ELSE Emit(w, e, "error", a, NO_REASON))
        EXCEPT !.sent = [at |-> e, to |-> a, ws |-> w.conn[e][a],
                         out |-> IF isConnected(w, e, a) THEN o ELSE "sent"]]

\* send(recipientId, message), for a recipient the peer book knows
send(w, e, a, o) ==
    IF ~isConnected(w, e, a)
    THEN [w EXCEPT !.sent = [at |-> e, to |-> a, ws |-> NoSock, out |-> "notConnected"]]
    ELSE socketSend(w, e, a, w.conn[e][a], o)

\* send(recipientId, message) called by the layer above
Send(e, a, o) ==
    /\ a \in book[e]
    /\ isConnected(World, e, a) => o \in SendOutcomes(World, e, conn[e][a])
    /\ ~isConnected(World, e, a) => o = "sent"
    /\ Commit(send(World, e, a, o))
    /\ nsock' = nsock

\* stop() leaving the connections alone
stopEachSkipping(w, e, todo) == w

\* the forEach of stop()
RECURSIVE stopEach(_, _, _)
stopEach(w, e, todo) ==
    IF todo = {}
    THEN w
    ELSE LET a == CHOOSE x \in todo : \A y \in todo : x <= y
         IN  stopEach(closeWs(w, e, w.conn[e][a], CODE_GRACEFUL_SHUTDOWN,
                              GRACEFUL_SHUTDOWN, "stop"),
                      e, todo \ {a})

\* stop(): the liveness timer is cleared, the connections are closed, the
\* listen socket is closed and the timer of the promise is armed
Stop(e) ==
    /\ stopped[e] = "no"
    /\ Commit([stopEach(World, e, {a \in Peers : conn[e][a] # NoSock})
                    EXCEPT !.stopped[e] = "grace"])
    /\ nsock' = nsock

\* the timer of stop() fires and resolves its promise
StopGrace(e) ==
    /\ stopped[e] = "grace"
    /\ Commit([World EXCEPT !.stopped[e] = "done"])
    /\ nsock' = nsock

\* a server that is not an endpoint accepts socket s: its response carries no
\* peer headers, the upgrade listener of connect() leaves serverPeerInfo unset
AcceptSilent(s) ==
    /\ sock[s].cst = "connecting"
    /\ sock[s].sst = "none"
    /\ Commit([World EXCEPT !.sock[s].sst = "open", !.sock[s].lacks = "headers"])
    /\ nsock' = nsock

\* what an upgrade request can lack
Lacking == {"address", "peerId", "peerType"}

\* the upgrade and open handlers of endpoint e for the request of a client
\* that is not an endpoint, with the address a (0 when the query has none) and
\* lacking l
IncomingBare(e, a, l) ==
    /\ nsock < MaxSockets
    /\ stopped[e] = "no"
    /\ (l = "address") <=> (a = 0)
    /\ a # e
    /\ LET s == nsock + 1
       IN  /\ Commit(onIncomingConnection(
                    [World EXCEPT !.sock[s] =
                        [NoSocket EXCEPT !.from = a, !.to = e, !.cst = "open",
                                         !.sst = "open", !.lacks = l]], s))
           /\ nsock' = s

CloseReasons == {GRACEFUL_SHUTDOWN, NO_SHARED_STREAMS}

WsNext ==
    \/ \E e \in Active, a \in Active : Connect(e, a)
    \/ \E e \in Active, a \in Active, r \in CloseReasons : Close(e, a, r)
    \/ \E s \in SockIds : Accept(s)
    \/ \E s \in SockIds : ClientOpen(s)
    \/ \E s \in SockIds : ConnectError(s)
    \/ \E s \in SockIds : ClientCloseEvent(s)
    \/ \E s \in SockIds : ServerCloseEvent(s)

\* the endpoint with its liveness timer
LiveNext ==
    \/ WsNext
    \/ \E e \in Active : PingTick(e)
    \/ \E s \in SockIds : PongClient(s)
    \/ \E s \in SockIds : PongServer(s)



\* ------------------------------------------------------------------------
\* Two endpoints dial each other at the same time
\* ------------------------------------------------------------------------

DialNext ==
    \/ \E s \in SockIds : Accept(s)
    \/ \E s \in SockIds : ClientOpen(s)
    \/ \E s \in SockIds : ClientCloseEvent(s)
    \/ \E s \in SockIds : ServerCloseEvent(s)


\* ------------------------------------------------------------------------
\* Properties of the endpoint
\* ------------------------------------------------------------------------

\* every event of every socket has been handled
Quiescent ==
    \A s \in SockIds :
        /\ sock[s].cst \in {"none", "open", "closed"}
        /\ sock[s].sst \in {"none", "open", "closed"}
        /\ (sock[s].cst = "none") <=> (sock[s].sst = "none")

OpenSockets == {s \in SockIds : SocketOpen(sock[s])}

\* of the two sockets of a simultaneous dial, the one dialled by the peer
\* with the greater address, and the one dialled by the peer with the smaller
ByHi == IF sock[1].from > sock[1].to THEN 1 ELSE 2
ByLo == IF sock[1].from > sock[1].to THEN 2 ELSE 1

\* C1: at most one WebSocket is open between any two peers, in every
\* reachable state
OneOpen ==
    \A s, t \in SockIds :
        (/\ SocketOpen(sock[s])
         /\ SocketOpen(sock[t])
         /\ {sock[s].from, sock[s].to} = {sock[t].from, sock[t].to})
            => s = t

\* C2: after a simultaneous dial, once all events are handled, exactly one
\* socket between the two peers is open and the connections of both peers
\* refer to it
DialSurvivor ==
    Quiescent =>
        \E s \in SockIds :
            /\ OpenSockets = {s}
            /\ conn[sock[s].from][sock[s].to] = s
            /\ conn[sock[s].to][sock[s].from] = s

\* C3 as stated: after a simultaneous dial of p and q with p < q, the socket
\* dialled by q is the one that is open in the end, and the socket dialled by
\* p was closed as a duplicate
SurvivorDialledByGreater ==
    Quiescent =>
        /\ SocketOpen(sock[ByHi])
        /\ ~SocketOpen(sock[ByLo])
        /\ sock[ByLo].cl \in {"tiebreak", "reject"}

\* C3: the tiebreak of _onNewConnection closes only the socket that the peer
\* with the greater address has dialled itself, and once all events of a
\* simultaneous dial in which the tiebreak has closed a socket are handled,
\* the socket dialled by the peer with the smaller address is the open one
TiebreakDirection ==
    /\ \A s \in SockIds : sock[s].cl = "tiebreak" => sock[s].from > sock[s].to
    /\ (Quiescent /\ \E s \in SockIds : sock[s].cl = "tiebreak")
         => /\ SocketOpen(sock[ByLo])
            /\ ~SocketOpen(sock[ByHi])
            /\ sock[ByHi].cl = "tiebreak"

\* all events of a simultaneous dial are handled and the tiebreak has closed
\* a socket
TiebreakDecided == Quiescent /\ \E s \in SockIds : sock[s].cl = "tiebreak"

\* ------------------------------------------------------------------------
\* The resend handler (src/resend/ResendHandler.js)
\*
\* A strategy's response stream is "idle" (not asked for yet), "live",
\* "ended" (its end event was emitted), "errored" (it emitted an error of its
\* own), "destroyed" (destroy() was called, its close event is still to
\* come) or "closed".  pr tells whether the promise of
\* _readStreamUntilEndOrError for the stream is still pending; that is also
\* when its interval timer runs.  A handler and the continuation of the loop
\* that its resolve() wakes run without any other event in between, so each
\* is one action.  The close event of a destroyed stream comes from the
\* next-tick queue, before any further event of a stream or timer.
\* ------------------------------------------------------------------------

\* length of the list of resend strategies
NumStrategies == 2

\* items a strategy's response stream yields at most
MaxItems == 2

\* requests handled
MaxRequests == 2

\* the requests handled where response streams yield items and time out
LoopRequests == {1}

Sources == {"n1", "n2"}
ReqIds == 1..MaxRequests
StratIds == 1..NumStrategies

IdleStream == [st |-> "idle", pr |-> FALSE, n |-> 0, last |-> 0, flowing |-> FALSE]

\* a response stream just returned by getResendResponseStream, with the data
\* listeners of the loop and of _readStreamUntilEndOrError on it
NewStream == [st |-> "live", pr |-> TRUE, n |-> 0, last |-> 0, flowing |-> TRUE]

NoRequest ==
    [st |-> "none", src |-> "", i |-> 0, stop |-> FALSE, paused |-> FALSE,
     canc |-> FALSE, out |-> <<>>, eof |-> FALSE, late |-> FALSE,
     strm |-> [k \in StratIds |-> IdleStream]]

\* ResendBookkeeper.add
bkAdd(b, node, r) ==
    IF node \in DOMAIN b
    THEN [b EXCEPT ![node] = @ \cup {r}]
    ELSE [x \in DOMAIN b \cup {node} |-> IF x = node THEN {r} ELSE b[x]]

\* a set of contexts in the order a Set iterates it: the order of insertion
RECURSIVE inOrder(_)
inOrder(S) ==
    IF S = {}
    THEN <<>>
    ELSE LET m == CHOOSE x \in S : \A y \in S : x <= y
         IN  <<m>> \o inOrder(S \ {m})

\* ResendBookkeeper.getContexts
bkGetContexts(b, node) == IF node \in DOMAIN b THEN inOrder(b[node]) ELSE <<>>

\* a pop that keeps the key
bkPopKeeping(b, node) == b

\* ResendBookkeeper.popContexts: the bookkeeping without the key
bkPop(b, node) == [x \in DOMAIN b \ {node} |-> b[x]]

\* a delete that leaves the key of an emptied set
bkDeleteLeavingKey(b, node, r) ==
    IF node \in DOMAIN b
    THEN [b EXCEPT ![node] = @ \ {r}]
    ELSE b

\* ResendBookkeeper.delete
bkDelete(b, node, r) ==
    IF node \in DOMAIN b
    THEN IF b[node] \ {r} = {}
         THEN [x \in DOMAIN b \ {node} |-> b[x]]
         ELSE [b EXCEPT ![node] = @ \ {r}]
    ELSE b

\* ResendBookkeeper.size
bkSize(b) ==
    LET RECURSIVE sum(_)
        sum(K) == IF K = {} THEN 0
                  ELSE LET k == CHOOSE x \in K : TRUE
                       IN  Cardinality(b[k]) + sum(K \ {k})
    IN  sum(DOMAIN b)

\* a push that puts the item in front
pushItemFront(rq, item) ==
    IF rq.eof
    THEN [rq EXCEPT !.late = TRUE]
    ELSE [rq EXCEPT !.out = <<item>> \o @]

\* requestStream.push(item) of the data listener of the loop
pushItem(rq, item) ==
    IF rq.eof
    THEN [rq EXCEPT !.late = TRUE]
    ELSE [rq EXCEPT !.out = Append(@, item)]

\* the for loop of _loopThruResendStrategies from the test of its condition
\* for strategy k on, up to the next await or to requestStream.push(null)
loopFrom(rq, k) ==
    IF k <= NumStrategies /\ ~rq.stop
    THEN [rq EXCEPT !.i = k, !.strm[k] = NewStream]
    ELSE [rq EXCEPT !.st = "done", !.eof = TRUE]

\* the loop going on to the next strategy whatever the result
loopResumeIgnoring(rq, result) == loopFrom(rq, rq.i + 1)

\* the loop stopping whatever the result
loopResumeStopping(rq, result) == loopFrom([rq EXCEPT !.stop = TRUE], rq.i + 1)

\* the loop after its await has resolved with result
loopResume(rq, result) ==
    loopFrom([rq EXCEPT !.stop = IF result THEN TRUE ELSE @], rq.i + 1)

\* a handler of _readStreamUntilEndOrError settles the promise of stream k of
\* request r, which leaves the stream as strm; the finally of the loop runs
\* when the loop is over.  The interval is cleared, so lastCheck is read no
\* more, nor is the flowing flag of a stream that is over.
settle(r, k, strm, result) ==
    LET rq0 == [req[r] EXCEPT !.strm[k] =
                    [strm EXCEPT !.pr = FALSE, !.last = 0,
                                 !.flowing = IF strm.st = "live" THEN @ ELSE FALSE]]
        rq1 == IF req[r].strm[k].pr THEN loopResume(rq0, result) ELSE rq0
    IN  /\ req' = [req EXCEPT ![r] = rq1]
        /\ resends' = IF rq1.st = "done" /\ req[r].st # "done"
                      THEN bkDelete(resends, rq1.src, r)
                      ELSE resends

\* a close event is waiting in the next-tick queue
ClosePending == \E r \in ReqIds, k \in StratIds : req[r].strm[k].st = "destroyed"

\* handleRequest(request, source), the request being one of R
HandleRequest(src, R) ==
    /\ nreq + 1 \in R
    /\ LET r == nreq + 1
           rq == loopFrom([NoRequest EXCEPT !.st = "running", !.src = src], 1)
       IN  /\ req' = [req EXCEPT ![r] = rq]
           /\ resends' = IF rq.st = "done"
                         THEN bkDelete(bkAdd(resends, src, r), src, r)
                         ELSE bkAdd(resends, src, r)
           /\ nreq' = r
    /\ returned' = <<>>
    /\ UNCHANGED <<wsVars, bpVars, logicVars, strategiesStopped>>
    /\ UNCHANGED errs

\* a data event of stream k of request r
StreamData(r, k) ==
    /\ ~ClosePending
    /\ req[r].strm[k].st = "live"
    /\ req[r].strm[k].flowing
    /\ req[r].strm[k].n < MaxItems
    /\ req' = [req EXCEPT ![r] =
                pushItem([@ EXCEPT !.strm[k].n = @ + 1], <<k, req[r].strm[k].n + 1>>)]
    /\ returned' = <<>>
    /\ UNCHANGED <<wsVars, bpVars, logicVars, strategiesStopped>>
    /\ UNCHANGED <<resends, errs, nreq>>

\* the end event of stream k of request r
StreamEnd(r, k) ==
    /\ ~ClosePending
    /\ req[r].strm[k].st = "live"
    /\ req[r].strm[k].flowing
    /\ settle(r, k, [req[r].strm[k] EXCEPT !.st = "ended"], req[r].strm[k].n > 0)
    /\ returned' = <<>>
    /\ UNCHANGED <<wsVars, bpVars, logicVars, strategiesStopped>>
    /\ UNCHANGED <<errs, nreq>>

\* an error event the stream k of request r emits itself
StreamError(r, k) ==
    /\ ~ClosePending
    /\ req[r].strm[k].st = "live"
    /\ errs' = errs \cup {[request |-> r, strategy |-> k, error |-> "error"]}
    /\ settle(r, k, [req[r].strm[k] EXCEPT !.st = "errored"], FALSE)
    /\ returned' = <<>>
    /\ UNCHANGED <<wsVars, bpVars, logicVars, strategiesStopped>>
    /\ UNCHANGED nreq

\* an interval timer that never emits the timeout error
IntervalTickIdle(r, k) ==
    /\ ~ClosePending
    /\ req[r].strm[k].pr
    /\ req' = [req EXCEPT ![r].strm[k].last = req[r].strm[k].n]
    /\ returned' = <<>>
    /\ UNCHANGED <<wsVars, bpVars, logicVars, strategiesStopped>>
    /\ UNCHANGED <<resends, errs, nreq>>

\* the interval timer of _readStreamUntilEndOrError for stream k of request r
IntervalTick(r, k) ==
    /\ ~ClosePending
    /\ req[r].strm[k].pr
    /\ IF req[r].strm[k].n = req[r].strm[k].last
       THEN /\ errs' = errs \cup {[request |-> r, strategy |-> k, error |-> "timeout"]}
            /\ settle(r, k, req[r].strm[k], FALSE)
       ELSE /\ req' = [req EXCEPT ![r].strm[k].last = req[r].strm[k].n]
            /\ UNCHANGED <<resends, errs>>
    /\ returned' = <<>>
    /\ UNCHANGED <<wsVars, bpVars, logicVars, strategiesStopped>>
    /\ UNCHANGED nreq

\* the close event of stream k of request r after destroy()
StreamClose(r, k) ==
    /\ req[r].strm[k].st = "destroyed"
    /\ settle(r, k, [req[r].strm[k] EXCEPT !.st = "closed"], req[r].strm[k].n > 0)
    /\ returned' = <<>>
    /\ UNCHANGED <<wsVars, bpVars, logicVars, strategiesStopped>>
    /\ UNCHANGED <<errs, nreq>>

\* ctx.pause(): requestStream.pause() and its pause listener
ctxPause(rq) ==
    IF rq.paused
    THEN rq
    ELSE [rq EXCEPT !.paused = TRUE,
                    !.strm = IF rq.i = 0 THEN @ ELSE [@ EXCEPT ![rq.i].flowing = FALSE]]

\* ctx.resume(): requestStream.resume() and its resume listener
ctxResume(rq) ==
    IF ~rq.paused
    THEN rq
    ELSE [rq EXCEPT !.paused = FALSE,
                    !.strm = IF rq.i = 0 THEN @
                             ELSE [@ EXCEPT ![rq.i].flowing = (rq.strm[rq.i].st = "live")]]

\* a cancel that leaves the response stream alone
ctxCancelNoDestroy(rq) == [rq EXCEPT !.stop = TRUE, !.canc = TRUE]

\* ctx.cancel()
ctxCancel(rq) ==
    [rq EXCEPT !.stop = TRUE, !.canc = TRUE,
               !.strm = IF rq.i # 0 /\ rq.strm[rq.i].st = "live"
                        THEN [@ EXCEPT ![rq.i].st = "destroyed", ![rq.i].flowing = FALSE]
                        ELSE @]

\* pauseResendsOfNode(node)
PauseResendsOfNode(node) ==
    /\ req' = [r \in ReqIds |->
                IF node \in DOMAIN resends /\ r \in resends[node]
                THEN ctxPause(req[r]) ELSE req[r]]
    /\ returned' = <<>>
    /\ UNCHANGED <<wsVars, bpVars, logicVars, strategiesStopped>>
    /\ UNCHANGED <<resends, errs, nreq>>

\* resumeResendsOfNode(node)
ResumeResendsOfNode(node) ==
    /\ req' = [r \in ReqIds |->
                IF node \in DOMAIN resends /\ r \in resends[node]
                THEN ctxResume(req[r]) ELSE req[r]]
    /\ returned' = <<>>
    /\ UNCHANGED <<wsVars, bpVars, logicVars, strategiesStopped>>
    /\ UNCHANGED <<resends, errs, nreq>>

\* cancelResendsOfNode(node)
CancelResendsOfNode(node) ==
    /\ LET contexts == bkGetContexts(resends, node)
       IN  /\ resends' = bkPop(resends, node)
           /\ req' = [r \in ReqIds |->
                        IF \E j \in 1..Len(contexts) : contexts[j] = r
                        THEN ctxCancel(req[r]) ELSE req[r]]
           /\ returned' = <<node, contexts>>
    /\ UNCHANGED <<errs, nreq>>
    /\ UNCHANGED <<wsVars, bpVars, logicVars, strategiesStopped>>

\* Object.keys(this.ongoingResends): the own enumerable properties of the
\* ResendBookkeeper object, which its constructor sets
bookkeeperKeys == {"resends"}

\* stop(): cancelResendsOfNode for every key, then stop() of every strategy
ResendStop ==
    /\ strategiesStopped = {}
    /\ resends' = [x \in DOMAIN resends \ bookkeeperKeys |-> resends[x]]
    /\ req' = [r \in ReqIds |->
                IF \E node \in DOMAIN resends \cap bookkeeperKeys : r \in resends[node]
                THEN ctxCancel(req[r]) ELSE req[r]]
    /\ strategiesStopped' = StratIds
    /\ returned' = <<>>
    /\ UNCHANGED <<errs, nreq>>
    /\ UNCHANGED <<wsVars, bpVars, logicVars>>

ResendNext ==
    \/ \E src \in Sources : HandleRequest(src, LoopRequests)
    \/ \E r \in ReqIds, k \in StratIds : StreamData(r, k)
    \/ \E r \in ReqIds, k \in StratIds : StreamEnd(r, k)
    \/ \E r \in ReqIds, k \in StratIds : StreamError(r, k)
    \/ \E r \in ReqIds, k \in StratIds : IntervalTick(r, k)
    \/ \E r \in ReqIds, k \in StratIds : StreamClose(r, k)
    \/ \E node \in Sources : PauseResendsOfNode(node)
    \/ \E node \in Sources : ResumeResendsOfNode(node)
    \/ \E node \in Sources : CancelResendsOfNode(node)

\* the bookkeeping of several requests that are never paused, their response
\* streams yielding no item
BookNext ==
    \/ \E src \in Sources : HandleRequest(src, ReqIds)
    \/ \E r \in ReqIds, k \in StratIds : StreamEnd(r, k)
    \/ \E r \in ReqIds, k \in StratIds : StreamError(r, k)
    \/ \E r \in ReqIds, k \in StratIds : StreamClose(r, k)
    \/ \E node \in Sources : CancelResendsOfNode(node)

\* ------------------------------------------------------------------------
\* Back pressure of a connection (connection/WsEndpoint.js)
\* ------------------------------------------------------------------------

HIGH_BACK_PRESSURE == 1024 * 1024 * 2
LOW_BACK_PRESSURE == 1024 * 1024

BP_HIGH_EVENT == "streamr:high-back-pressure"
BP_LOW_EVENT == "streamr:low-back-pressure"

\* connections whose buffer is watched
BpConns == {1, 2}

\* the amounts getBufferedAmount may return: the watermarks and their neighbours
BufferLevels ==
    {0, LOW_BACK_PRESSURE - 1, LOW_BACK_PRESSURE, LOW_BACK_PRESSURE + 1,
     HIGH_BACK_PRESSURE - 1, HIGH_BACK_PRESSURE, HIGH_BACK_PRESSURE + 1}

\* an evaluation with the watermarks themselves counted as beyond them
evaluateBackPressureInclusive(ws) ==
    IF ~ws.high /\ ws.buf >= HIGH_BACK_PRESSURE
    THEN [ws |-> [ws EXCEPT !.high = TRUE], ev |-> <<BP_HIGH_EVENT>>]
    ELSE IF ws.high /\ ws.buf <= LOW_BACK_PRESSURE
    THEN [ws |-> [ws EXCEPT !.high = FALSE], ev |-> <<BP_LOW_EVENT>>]
    ELSE [ws |-> ws, ev |-> <<>>]

\* _evaluateBackPressure on a ws whose getBufferedAmount returns ws.buf;
\* .ev are the events emitted
evaluateBackPressure(ws) ==
    IF ~ws.high /\ ws.buf > HIGH_BACK_PRESSURE
    THEN [ws |-> [ws EXCEPT !.high = TRUE], ev |-> <<BP_HIGH_EVENT>>]
    ELSE IF ws.high /\ ws.buf < LOW_BACK_PRESSURE
    THEN [ws |-> [ws EXCEPT !.high = FALSE], ev |-> <<BP_LOW_EVENT>>]
    ELSE [ws |-> ws, ev |-> <<>>]

\* _socketSend on connection c whose send() does not raise: afterwards b bytes
\* are buffered
SocketSend(c, b) ==
    /\ wsb[c].live
    /\ LET r == evaluateBackPressure([wsb[c] EXCEPT !.buf = b])
       IN  /\ wsb' = [wsb EXCEPT ![c] = r.ws]
           /\ bpLast' = [op |-> "send", c |-> c, ev |-> r.ev]
    /\ UNCHANGED <<wsVars, resendVars, logicVars>>

\* _socketSend on connection c whose send() raises: the socket is terminated
SocketSendRaises(c) ==
    /\ wsb[c].live
    /\ wsb' = [wsb EXCEPT ![c].live = FALSE]
    /\ bpLast' = [op |-> "raise", c |-> c, ev |-> <<>>]
    /\ UNCHANGED <<wsVars, resendVars, logicVars>>

\* the drain handler of the constructor: the buffer of c has gone down to b
Drain(c, b) ==
    /\ wsb[c].live
    /\ b <= wsb[c].buf
    /\ LET r == evaluateBackPressure([wsb[c] EXCEPT !.buf = b])
       IN  /\ wsb' = [wsb EXCEPT ![c] = r.ws]
           /\ bpLast' = [op |-> "drain", c |-> c, ev |-> r.ev]
    /\ UNCHANGED <<wsVars, resendVars, logicVars>>

BpNext ==
    \/ \E c \in BpConns, b \in BufferLevels : SocketSend(c, b)
    \/ \E c \in BpConns : SocketSendRaises(c)
    \/ \E c \in BpConns, b \in BufferLevels : Drain(c, b)

\* ------------------------------------------------------------------------
\* Properties of connect and of incoming upgrades
\* ------------------------------------------------------------------------

\* no PEER_CONNECTED is emitted at endpoint e in the step
NoPeerConnectedAt(e) ==
    \A j \in 1..Len(emitted') :
        ~(emitted'[j].at = e /\ emitted'[j].ev = PEER_CONNECTED)

\* C15: an incoming upgrade that lacks the address, the streamr-peer-id or the
\* streamr-peer-type is closed with code 1002 and the reason
\* MISSING_REQUIRED_PARAMETER; it is not added to the connections and no
\* PEER_CONNECTED is emitted for it
MissingParameterRejected ==
    [][\A s \in SockIds :
        (sock[s].sst = "none" /\ sock'[s].lacks \in Lacking) =>
            /\ sock'[s].sst = "closed"
            /\ sock'[s].scode = CODE_MISSING_REQUIRED_PARAMETER
            /\ sock'[s].srs = MISSING_REQUIRED_PARAMETER
            /\ \A e \in Peers, a \in Peers : conn'[e][a] # s
            /\ NoPeerConnectedAt(sock'[s].to)]_vars

\* connect() of socket s fails in the step
ConnectFails(s) == sock[s].res = "pending" /\ sock'[s].res = "rejected"

\* a failed connect leaves no trace at the endpoint that dialled
FailedConnectStep ==
    \A s \in SockIds :
        ConnectFails(s) =>
            LET e == sock[s].from
                a == sock[s].to
            IN  /\ \A b \in Peers : conn'[e][b] # s
                /\ NoPeerConnectedAt(e)
                /\ a \notin pend'[e]
                /\ ~LocallyOpen(sock'[s].cst)

\* connect() to the own address opens no socket and changes nothing
OwnAddressStep ==
    /\ \A e \in Peers : Connect(e, e) => UNCHANGED <<conn, pend, book, sock, nsock>>
    /\ \A s \in SockIds : sock'[s].cst # "none" => sock'[s].from # sock'[s].to

\* a connect attempt ends rejected for each of its failures and for nothing else
FailureCauses ==
    \A s \in SockIds :
        /\ ConnectFails(s) =>
                \/ sock'[s].lacks = "headers"
                \/ conn[sock[s].from][sock[s].to] # NoSock
                \/ sock[s].sst = "none"
        /\ (sock[s].res = "pending" /\ sock[s].cst = "connecting"
                /\ sock'[s].cst # "connecting") =>
                    \/ ConnectFails(s)
                    \/ /\ sock'[s].res = "resolved"
                       /\ conn'[sock[s].from][sock[s].to] = s

\* C16: whenever connect() fails (own address, response without the peer
\* headers, duplicate after open, transport error) the promise is rejected,
\* the attempt adds no entry to the connections, emits no PEER_CONNECTED and
\* the pending entry of the address is removed
ConnectFailure == [][FailedConnectStep /\ OwnAddressStep /\ FailureCauses]_vars

\* one connect has failed for missing headers and one as a duplicate
ConnectsFailed ==
    \E s, t \in SockIds :
        /\ sock[s].res = "rejected" /\ sock[s].lacks = "headers"
        /\ sock[t].res = "rejected" /\ sock[t].cl = "tiebreak"

\* ------------------------------------------------------------------------
\* Properties of send
\* ------------------------------------------------------------------------

\* the end of socket s that endpoint e holds is closed or closing by e's doing
EndClosedNext(e, s) ==
    IF sock'[s].from = e
    THEN sock'[s].cst \in {"lclosing", "closed"}
    ELSE sock'[s].sst = "closed"

\* C12: every send failure, whether ws.send raises or its completion callback
\* reports an error, closes or terminates the socket locally
SendFailureCloses ==
    [][sent'.out \in {"raise", "cberr"} => EndClosedNext(sent'.at, sent'.ws)]_vars

\* C17: send() to a peer of the peer book that has no connection is rejected as
\* not connected; nothing is sent, the connections, the pending connections,
\* the sockets and the back-pressure flags stay as they are and no event is
\* emitted; a send to a connected peer is never rejected so
NotConnectedSend ==
    [][sent' # NoSend =>
        /\ (conn[sent'.at][sent'.to] = NoSock) <=> (sent'.out = "notConnected")
        /\ sent'.out = "notConnected" =>
                /\ sent'.ws = NoSock
                /\ emitted' = <<>>
                /\ UNCHANGED <<conn, pend, book, sock, stopped, wsb, bpLast>>]_vars

\* a send was rejected as not connected
SendRejected == sent.out = "notConnected" /\ sent.to \in book[sent.at]

\* C33: the promise of every send() to a peer of the peer book settles, it is
\* resolved or rejected, also when ws.send throws and the socket is terminated
SendSettles ==
    sent # NoSend => sendPromise(sent.out) \in {"resolved", "rejected"}

\* the contexts of the bookkeeper
Ongoing == {r \in ReqIds : \E node \in DOMAIN resends : r \in resends[node]}

\* C36: stop() cancels every ongoing resend of every source: each context that
\* was ongoing has stop set and no live response stream, the bookkeeper holds
\* no context, and stop() has been called on every strategy
StopCancelsAll ==
    [][(strategiesStopped = {} /\ strategiesStopped' # {}) =>
            /\ \A r \in Ongoing :
                    /\ req'[r].stop
                    /\ \A k \in StratIds : req'[r].strm[k].st # "live"
            /\ DOMAIN resends' = {}
            /\ strategiesStopped' = StratIds]_vars

\* C37: an item is pushed to the outbound sequence of a request only by the
\* strategy the loop is at, and not after the end of the sequence has been
\* pushed
OnlyActivePushes ==
    [][\A r \in ReqIds :
            /\ Len(req'[r].out) > Len(req[r].out) =>
                    /\ ~req[r].eof
                    /\ req'[r].out[Len(req'[r].out)][1] = req[r].i
            /\ ~req'[r].late]_vars

\* ------------------------------------------------------------------------
\* Properties of stop
\* ------------------------------------------------------------------------

\* C13: a connect attempt that is pending when stop() is called is cancelled:
\* its promise does not resolve after stop()
StoppedConnectNeverResolves ==
    [][\A s \in SockIds :
        (sock[s].res = "pending" /\ stopped[sock[s].from] # "no")
            => sock'[s].res # "resolved"]_vars

\* stop() of e has sent a close with code 1000 and GRACEFUL_SHUTDOWN on socket s
ClosedGracefully(e, s) ==
    IF sock[s].from = e
    THEN sock[s].cst = "open" =>
            /\ sock'[s].cst = "lclosing"
            /\ sock'[s].ccode = CODE_GRACEFUL_SHUTDOWN
            /\ sock'[s].crs = GRACEFUL_SHUTDOWN
            /\ sock[s].sst = "open" =>
                    /\ sock'[s].scode = CODE_GRACEFUL_SHUTDOWN
                    /\ sock'[s].srs = GRACEFUL_SHUTDOWN
    ELSE LocallyOpen(sock[s].sst) =>
            /\ sock'[s].sst = "closed"
            /\ sock'[s].scode = CODE_GRACEFUL_SHUTDOWN
            /\ sock'[s].srs = GRACEFUL_SHUTDOWN
            /\ sock[s].cst = "open" =>
                    /\ sock'[s].ccode = CODE_GRACEFUL_SHUTDOWN
                    /\ sock'[s].crs = GRACEFUL_SHUTDOWN

\* the step of stop() closes every connection of the map
StopCloses ==
    \A e \in Peers :
        (stopped[e] = "no" /\ stopped'[e] # "no") =>
            /\ stopped'[e] = "grace"
            /\ \A a \in Peers : conn[e][a] # NoSock => ClosedGracefully(e, conn[e][a])

\* after stop() the liveness timer declares no connection dead and pings none,
\* and the listener accepts no socket
StopSilences ==
    \A e \in Peers :
        stopped[e] # "no" =>
            /\ stopped'[e] # "no"
            /\ \A j \in 1..Len(emitted') :
                    emitted'[j].at = e => emitted'[j].reason # DEAD_CONNECTION
            /\ \A s \in SockIds :
                    /\ (sock[s].from = e /\ sock[s].cpong # "no") => sock'[s].cpong # "no"
                    /\ (sock[s].to = e /\ sock[s].spong # "no") => sock'[s].spong # "no"
                    /\ (sock[s].to = e /\ sock[s].sst = "none") => sock'[s].sst = "none"

PongOf(e, s) == IF sock[s].from = e THEN sock[s].cpong ELSE sock[s].spong

\* the same after the step
PongOfNext(e, s) == IF sock'[s].from = e THEN sock'[s].cpong ELSE sock'[s].spong

\* after the step the end of socket s that endpoint e holds is closed locally
TerminatedAt(e, s) ==
    IF sock'[s].from = e
    THEN sock'[s].cst \in {"lclosing", "closed"}
    ELSE sock'[s].sst = "closed"

\* the events of the step tell that e lost a for a dead connection
SurfacedDead(e, a) ==
    \E j \in 1..Len(emitted') :
        emitted'[j] = [at |-> e, ev |-> PEER_DISCONNECTED, peer |-> a,
                       reason |-> DEAD_CONNECTION]

\* a tick of the liveness timer of e: a connection that was pinged and has
\* not answered is terminated, removed and surfaced; one never pinged is
\* pinged, or terminated when the ping fails
TickStep(e) ==
    \A a \in Peers :
        LET s == conn[e][a]
        IN  s # NoSock =>
                /\ PongOf(e, s) = "no" =>
                        /\ conn'[e][a] = NoSock
                        /\ TerminatedAt(e, s)
                        /\ SurfacedDead(e, a)
                /\ PongOf(e, s) # "no" =>
                        \/ conn'[e][a] = s /\ PongOfNext(e, s) = "no"
                        \/ conn'[e][a] = NoSock /\ SurfacedDead(e, a)

\* a connection just added was never pinged, and only a pong event makes a
\* pinged connection one that has answered
AnswersArePongs ==
    \A e \in Peers, a \in Peers :
        LET s == conn'[e][a]
        IN  /\ (s # NoSock /\ conn[e][a] # s) => PongOfNext(e, s) = "undef"
            /\ (s # NoSock /\ conn[e][a] = s /\ PongOf(e, s) = "no"
                    /\ PongOfNext(e, s) = "yes")
                  => \E x \in SockIds : PongClient(x) \/ PongServer(x)

\* C11: a connection whose peer never answers with a pong is, at the latest
\* at the second tick of the liveness timer after it was added, terminated,
\* removed from the connections and surfaced as PEER_DISCONNECTED with the
\* reason DEAD_CONNECTION
DeadConnection ==
    [][AnswersArePongs /\ \A e \in Peers : PingTick(e) => TickStep(e)]_vars

\* a connection was added, pinged once, not answered, and declared dead at
\* the next tick
DeclaredDead ==
    \E j \in 1..Len(emitted) :
        /\ emitted[j].ev = PEER_DISCONNECTED
        /\ emitted[j].reason = DEAD_CONNECTION
        /\ conn[emitted[j].at][emitted[j].peer] = NoSock

\* the state of the end of socket s that endpoint e holds
EndOf(e, s) == IF sock[s].from = e THEN sock[s].cst ELSE sock[s].sst

\* the same after the step
EndOfNext(e, s) == IF sock'[s].from = e THEN sock'[s].cst ELSE sock'[s].sst

\* the tick leaves the connection of e to a over socket s in place: not
\* terminated, still in the connections, respondedPong cleared, a ping sent
\* and no PEER_DISCONNECTED with the reason DEAD_CONNECTION
PingedAndKept(e, a, s) ==
    /\ conn'[e][a] = s
    /\ EndOfNext(e, s) = EndOf(e, s)
    /\ PongOfNext(e, s) = "no"
    /\ sock[s].to = e => sock'[s].sping
    /\ ~SurfacedDead(e, a)

\* a tick of the liveness timer of e keeps every connection that has answered
\* its last ping or was never pinged
AnsweredTick(e) ==
    \A a \in Peers :
        LET s == conn[e][a]
        IN  (s # NoSock /\ PongOf(e, s) # "no") => PingedAndKept(e, a, s)

\* a tick of the liveness timer of e keeps every connection that has answered
\* its last ping or was never pinged, when its socket is not closed
OpenAnsweredTick(e) ==
    \A a \in Peers :
        LET s == conn[e][a]
        IN  (s # NoSock /\ PongOf(e, s) # "no" /\ EndOf(e, s) # "closed")
                => PingedAndKept(e, a, s)

\* at a tick a connection with an open socket that has answered its last ping
\* or was never pinged is pinged and kept
OpenAnsweredKept ==
    [][\A e \in Peers : PingTick(e) => OpenAnsweredTick(e)]_vars

\* C30: at a tick of the liveness timer a connection that has answered its
\* last ping or was never pinged is not terminated: respondedPong is cleared,
\* a ping is sent, it stays in the connections and it is not disconnected
\* with DEAD_CONNECTION
AnsweredKept ==
    [][\A e \in Peers : PingTick(e) => AnsweredTick(e)]_vars

\* ------------------------------------------------------------------------
\* Properties of the peer events
\* ------------------------------------------------------------------------

\* the j-th event of the step is a PEER_CONNECTED or PEER_DISCONNECTED
PeerEvent(j) == emitted'[j].ev \in {PEER_CONNECTED, PEER_DISCONNECTED}

\* the peer event the endpoint emitted for the same address before the j-th
\* event of the step, "none" when there is none
EventBefore(j) ==
    LET same == {i \in 1..(j - 1) :
                    /\ PeerEvent(i)
                    /\ emitted'[i].at = emitted'[j].at
                    /\ emitted'[i].peer = emitted'[j].peer}
    IN  IF same = {}
        THEN lastEvent[emitted'[j].at][emitted'[j].peer]
        ELSE emitted'[CHOOSE i \in same : \A x \in same : x <= i].ev

\* C31: for each address the PEER_CONNECTED and PEER_DISCONNECTED events of an
\* endpoint alternate, and the first of them is a PEER_CONNECTED
EventsAlternate ==
    [][\A j \in 1..Len(emitted') :
            (PeerEvent(j) /\ emitted'[j].peer \in Peers) =>
                emitted'[j].ev = IF EventBefore(j) = PEER_CONNECTED
                                 THEN PEER_DISCONNECTED
                                 ELSE PEER_CONNECTED]_vars

\* the step handles the close event of the end of socket s that endpoint e
\* holds
CloseEventAt(e, s) ==
    /\ e \in {sock[s].from, sock[s].to}
    /\ EndOf(e, s) \in {"rclosing", "lclosing"}
    /\ EndOfNext(e, s) = "closed"

\* the address endpoint e knows the other end of socket s by
OtherEnd(e, s) == IF sock[s].from = e THEN sock[s].to ELSE sock[s].from

\* C32: the close event of a socket that is not the one the connections hold
\* for its address leaves the live connection of that address in place and
\* emits no PEER_DISCONNECTED for it
StaleCloseIgnored ==
    [][\A e \in Peers, s \in SockIds :
            LET a == OtherEnd(e, s)
                c == conn[e][a]
            IN  (CloseEventAt(e, s) /\ a \in Peers /\ a # e /\ c \notin {NoSock, s}
                    /\ LocallyOpen(EndOf(e, c)))
                    => /\ conn'[e][a] = c
                       /\ \A j \in 1..Len(emitted') :
                            ~(/\ emitted'[j].ev = PEER_DISCONNECTED
                              /\ emitted'[j].at = e
                              /\ emitted'[j].peer = a)]_vars

\* C34: an endpoint emits MESSAGE_RECEIVED for a peer only while a connection
\* to that peer is in its connections, after the PEER_CONNECTED and before the
\* PEER_DISCONNECTED of that connection
ReceivedWhileConnected ==
    [][\A j \in 1..Len(emitted') :
            emitted'[j].ev = MESSAGE_RECEIVED =>
                /\ conn[emitted'[j].at][emitted'[j].peer] # NoSock
                /\ lastEvent[emitted'[j].at][emitted'[j].peer] = PEER_CONNECTED]_vars

\* ------------------------------------------------------------------------
\* Properties of the pending dials
\* ------------------------------------------------------------------------

\* the sockets endpoint e has dialled to a whose promise is not settled
Unsettled(e, a) ==
    {s \in SockIds : sock[s].from = e /\ sock[s].to = a /\ sock[s].res = "pending"}

\* pendingConnections holds an address exactly while its dial is unsettled,
\* and no address has two unsettled dials
PendingExact ==
    \A e \in Peers, a \in Peers :
        /\ a \in pend[e] <=> Unsettled(e, a) # {}
        /\ Cardinality(Unsettled(e, a)) <= 1

\* a step in which an endpoint dials finds no dial to the address pending and
\* no connection to it whose socket is open
DialsWhenNeeded ==
    (nsock' # nsock /\ sock'[nsock'].res = "pending") =>
        LET e == sock'[nsock'].from
            a == sock'[nsock'].to
        IN  /\ nsock' = nsock + 1
            /\ a \notin pend[e]
            /\ conn[e][a] # NoSock => ~LocallyOpen(EndOf(e, conn[e][a]))

\* C35: at most one dial per address is in flight: connect() opens no socket
\* while a dial to the address is pending or a connection to it is open, and
\* pendingConnections holds the address exactly while its dial is unsettled
OneDialInFlight == []PendingExact /\ [][DialsWhenNeeded]_vars

\* a dial is pending to an address that an earlier, settled dial went to
Redialled ==
    \E s \in SockIds, x \in SockIds :
        /\ sock[s].res = "pending"
        /\ sock[x].res \in {"resolved", "rejected"}
        /\ sock[x].from = sock[s].from
        /\ sock[x].to = sock[s].to

\* ------------------------------------------------------------------------
\* Properties of the resend handler
\* ------------------------------------------------------------------------

\* notifyError was called for strategy k of request r
Notified(r, k) == \E e \in errs : e.request = r /\ e.strategy = k

\* the items stream k of request r has yielded, in the order it yielded them
ItemsOf(r, k) == [j \in 1..req[r].strm[k].n |-> <<k, j>>]

\* the first strategy of request r whose stream has yielded an item, else 0
FirstProducer(r) ==
    IF \E k \in StratIds : req[r].strm[k].n > 0
    THEN CHOOSE k \in StratIds :
            /\ req[r].strm[k].n > 0
            /\ \A j \in StratIds : j < k => req[r].strm[j].n = 0
    ELSE 0

\* C4 as stated: once a strategy has yielded an item no later strategy is
\* invoked, whatever happens to its stream afterwards
StopsAtFirstProducer ==
    \A r \in ReqIds, k \in StratIds, j \in StratIds :
        (req[r].strm[k].n > 0 /\ j > k) => req[r].strm[j].st = "idle"

\* C4: once the stream of a strategy that has yielded an item has ended or
\* closed, and it has neither errored nor timed out, no later strategy is
\* invoked and the outbound stream is closed
StopsAtSatisfactory ==
    \A r \in ReqIds, k \in StratIds :
        (/\ req[r].strm[k].n > 0
         /\ req[r].strm[k].st \in {"ended", "closed"}
         /\ ~Notified(r, k))
            => /\ \A j \in StratIds : j > k => req[r].strm[j].st = "idle"
               /\ req[r].eof
               /\ req[r].st = "done"

\* a strategy that is not the last has yielded an item and ended, no error
\* was notified and the loop is over
SatisfiedEarly ==
    \E r \in ReqIds :
        /\ req[r].strm[1].n > 0
        /\ req[r].strm[1].st = "ended"
        /\ ~Notified(r, 1)
        /\ req[r].strm[2].st = "idle"
        /\ req[r].eof

\* strategies are invoked in list order, one after the other has settled
InvokedInOrder ==
    \A r \in ReqIds, k \in StratIds :
        req[r].strm[k].st # "idle" =>
            /\ k <= req[r].i
            /\ \A j \in StratIds : j < k =>
                    /\ req[r].strm[j].st # "idle"
                    /\ ~req[r].strm[j].pr

\* a step invokes at most the strategy after the current one, and no strategy
\* twice
InvokesNextOnly ==
    \A r \in ReqIds :
        /\ req'[r].i \in {req[r].i, req[r].i + 1}
        /\ \A k \in StratIds :
            /\ (req[r].strm[k].st = "idle" /\ req'[r].strm[k].st # "idle")
                    => (k = req[r].i + 1 /\ req'[r].i = k)
            /\ req[r].strm[k].st # "idle"
                    => /\ req'[r].strm[k].st # "idle"
                       /\ req'[r].strm[k].n >= req[r].strm[k].n
                       /\ req'[r].strm[k].pr => req[r].strm[k].pr

\* the step settles the promise of strategy k of request r with an error, a
\* timeout, or an end after no item
FailsIn(r, k) ==
    /\ req[r].strm[k].pr
    /\ ~req'[r].strm[k].pr
    /\ \/ \E e \in errs' \ errs : e.request = r /\ e.strategy = k
       \/ req'[r].strm[k].st = "ended" /\ req'[r].strm[k].n = 0

\* a strategy of a request not cancelled that fails is followed by the next
FallsBack ==
    \A r \in ReqIds, k \in StratIds :
        (FailsIn(r, k) /\ ~req[r].canc /\ k < NumStrategies)
            => /\ req'[r].i = k + 1
               /\ req[r].strm[k + 1].st = "idle"
               /\ req'[r].strm[k + 1] = NewStream

\* C5: a strategy that errors, times out or ends after no item is followed
\* by the next strategy of the list unless the request was cancelled;
\* strategies are invoked in list order, each at most once, and none before
\* the stream of the one before has ended, errored, closed or timed out
FallbackOrder == []InvokedInOrder /\ [][InvokesNextOnly /\ FallsBack]_vars

\* the first strategy has ended after no item and the second one is running
FellBackAfterEmpty ==
    \E r \in ReqIds :
        /\ req[r].strm[1].st = "ended"
        /\ req[r].strm[1].n = 0
        /\ ~Notified(r, 1)
        /\ req[r].strm[2].st = "live"
        /\ req[r].strm[2].pr

\* all streams of request r are over
AllOver(r) == \A k \in StratIds : req[r].strm[k].st \in {"idle", "ended", "errored", "closed"}

\* every strategy before k has ended without error after no item
EmptyBefore(r, k) ==
    \A j \in StratIds : j < k =>
        /\ req[r].strm[j].st = "ended"
        /\ req[r].strm[j].n = 0
        /\ ~Notified(r, j)

\* the outbound stream of r has got exactly the items of strategy k and then
\* its end, and notifyError was not called
ExactlyItemsOf(r, k) ==
    /\ req[r].out = ItemsOf(r, k)
    /\ req[r].eof
    /\ ~req[r].late
    /\ \A e \in errs : e.request # r

\* C6 as stated: when every strategy before the first one that yields items
\* has ended without error after no item, the outbound stream gets exactly
\* the items of that strategy, then ends, and notifyError is not called
FallbackResultAsStated ==
    \A r \in ReqIds :
        (/\ req[r].st = "done"
         /\ AllOver(r)
         /\ FirstProducer(r) # 0
         /\ EmptyBefore(r, FirstProducer(r)))
            => ExactlyItemsOf(r, FirstProducer(r))

\* C6: when every strategy before the first one that yields items has ended
\* without error after no item, and the stream of that strategy itself ends
\* without error or timeout, the outbound stream gets exactly the items of
\* that strategy, in their order, then ends, and notifyError is not called
FallbackResult ==
    \A r \in ReqIds :
        (/\ req[r].st = "done"
         /\ AllOver(r)
         /\ FirstProducer(r) # 0
         /\ EmptyBefore(r, FirstProducer(r))
         /\ req[r].strm[FirstProducer(r)].st = "ended"
         /\ ~Notified(r, FirstProducer(r)))
            => ExactlyItemsOf(r, FirstProducer(r))

\* strategies [empty, two messages]: the outbound stream has the two messages
EmptyThenTwo ==
    \E r \in ReqIds :
        /\ req[r].st = "done"
        /\ req[r].strm[1].st = "ended" /\ req[r].strm[1].n = 0
        /\ req[r].strm[2].st = "ended" /\ req[r].strm[2].n = 2
        /\ errs = {}
        /\ req[r].out = <<<<2, 1>>, <<2, 2>>>>
        /\ req[r].eof

\* the step is a cancel of the context of request r
CancelOf(r) == ~req[r].canc /\ req'[r].canc

\* cancel sets ctx.stop and destroys the active response stream
CancelDestroys ==
    \A r \in ReqIds :
        CancelOf(r) =>
            /\ req'[r].stop
            /\ req[r].i # 0 => req'[r].strm[req[r].i].st \notin {"idle", "live"}

\* after a cancel no strategy is started and no item is forwarded
CancelledStaysQuiet ==
    \A r \in ReqIds :
        req[r].canc =>
            /\ req'[r].out = req[r].out
            /\ req'[r].canc /\ req'[r].stop
            /\ \A k \in StratIds : req[r].strm[k].st = "idle" => req'[r].strm[k].st = "idle"

\* a cancelled request's outbound stream is ended once the close event of
\* the destroyed stream is handled
CancelledEnds ==
    \A r \in ReqIds :
        req[r].canc =>
            /\ req[r].stop
            /\ req[r].eof \/ \E k \in StratIds : req[r].strm[k].st = "destroyed"

\* C7: cancel sets ctx.stop and destroys the active response stream before it
\* returns; after it no strategy is started for the request, no item is
\* forwarded to its outbound stream, and the outbound stream is ended
CancelStops == []CancelledEnds /\ [][CancelDestroys /\ CancelledStaysQuiet]_vars

\* a request was cancelled while its second strategy was running after the
\* first had yielded nothing, and its outbound stream has ended
CancelledAndEnded ==
    \E r \in ReqIds :
        /\ req[r].canc
        /\ req[r].eof
        /\ req[r].strm[2].st = "closed"
        /\ req[r].strm[2].n > 0

\* the requests whose contexts are outstanding for node
Outstanding(node) ==
    {r \in ReqIds : req[r].st = "running" /\ ~req[r].canc /\ req[r].src = node}

\* the elements of a sequence
Range(s) == {s[j] : j \in 1..Len(s)}

\* C8: cancelResendsOfNode(node) returns exactly the requests of the contexts
\* outstanding for node, each once, and cancels them; afterwards the
\* bookkeeping has no context for node, and the requests and the bookkeeping
\* of the other sources are as before
CancelOfNodeStep ==
    \A node \in Sources :
        (returned' # <<>> /\ returned'[1] = node) =>
            /\ Range(returned'[2]) = Outstanding(node)
            /\ Len(returned'[2]) = Cardinality(Outstanding(node))
            /\ \A r \in Outstanding(node) :
                    /\ req'[r].canc /\ req'[r].stop
                    /\ req'[r].strm[req[r].i].st = "destroyed"
            /\ node \notin DOMAIN resends'
            /\ \A r \in ReqIds : req[r].src # node => req'[r] = req[r]
            /\ \A m \in Sources \ {node} :
                    /\ (m \in DOMAIN resends') <=> (m \in DOMAIN resends)
                    /\ m \in DOMAIN resends => resends'[m] = resends[m]
                    /\ m \in DOMAIN resends => resends[m] = Outstanding(m)

CancelOfNode == [][CancelOfNodeStep]_vars

\* a cancelResendsOfNode has returned one request while a context of the
\* other source stays outstanding
CancelledOneOfTwo ==
    /\ returned # <<>>
    /\ Len(returned[2]) = 1
    /\ \E m \in Sources \ {returned[1]} : m \in DOMAIN resends /\ resends[m] # {}

\* C9: while the outbound stream of a request is paused, the response stream
\* of its current strategy is paused, also one that has become the current
\* one during the pause
PausedDownstream ==
    \A r \in ReqIds :
        (req[r].paused /\ req[r].i # 0 /\ req[r].strm[req[r].i].st = "live")
            => ~req[r].strm[req[r].i].flowing

\* stream k of request r emits an error of its own in the step
ErrorEvent(r, k) ==
    req[r].strm[k].st = "live" /\ req'[r].strm[k].st = "errored"

\* the interval of stream k of request r times the stream out in the step
TimedOut(r, k) ==
    /\ req[r].strm[k].pr
    /\ ~req'[r].strm[k].pr
    /\ req'[r].strm[k].st = "live"

\* the loop of request r, which was waiting for strategy k, goes on in the
\* step: to strategy k + 1 when there is one and the request is not
\* cancelled, else to the end of the outbound stream; what was pushed stays
GoesOn(r, k) ==
    /\ req'[r].out = req[r].out
    /\ IF k < NumStrategies /\ ~req[r].stop
       THEN /\ req'[r].st = "running"
            /\ req'[r].i = k + 1
            /\ req'[r].strm[k + 1] = NewStream
            /\ ~req'[r].eof
       ELSE /\ req'[r].st = "done"
            /\ req'[r].eof

\* an error or a timeout is notified with its request, and it makes the loop
\* that was waiting for the stream go on
ErrorStep ==
    \A r \in ReqIds, k \in StratIds :
        /\ ErrorEvent(r, k) =>
                LET n == [request |-> r, strategy |-> k, error |-> "error"]
                IN  /\ n \notin errs
                    /\ errs' = errs \cup {n}
                    /\ req[r].strm[k].pr => GoesOn(r, k)
        /\ TimedOut(r, k) =>
                LET n == [request |-> r, strategy |-> k, error |-> "timeout"]
                IN  /\ n \notin errs
                    /\ errs' = errs \cup {n}
                    /\ GoesOn(r, k)

\* C18: every error of a strategy and every inactivity timeout of a strategy
\* is reported through notifyError with the originating request, and the loop
\* then goes on with the next strategy
ErrorsNotified == [][ErrorStep]_vars

\* strategy 1 was timed out, strategy 2 failed with an error, both were
\* notified and the request is over
NotifiedTwice ==
    \E r \in ReqIds :
        /\ [request |-> r, strategy |-> 1, error |-> "timeout"] \in errs
        /\ [request |-> r, strategy |-> 2, error |-> "error"] \in errs
        /\ req[r].st = "done"

\* request r is in the bookkeeping
Booked(r) == \E node \in DOMAIN resends : r \in resends[node]

\* the outbound stream of a request is ended by the step that finishes its
\* loop and by no other, and a loop that has finished stays so
EndedOnce ==
    \A r \in ReqIds :
        /\ req[r].st = "done" => req'[r].st = "done"
        /\ (req'[r].eof # req[r].eof) => (req'[r].eof /\ req[r].st # "done"
                                            /\ req'[r].st = "done")
        /\ req'[r].st = "done" => (req'[r].eof /\ ~Booked(r)')

\* C19: every handled request terminates: its strategy loop finishes, its
\* outbound stream is ended, once, and its context is no longer in
\* ongoingResends; a stream that stays silent is timed out
ResendTerminates ==
    /\ [][EndedOnce]_vars
    /\ \A r \in ReqIds :
            (req[r].st = "running")
                ~> (req[r].st = "done" /\ req[r].eof /\ ~Booked(r))

\* a request whose streams stayed silent is over, both strategies timed out
TimedOutAndOver ==
    \E r \in ReqIds :
        /\ req[r].st = "done" /\ req[r].eof /\ req[r].out = <<>>
        /\ \A k \in StratIds :
                /\ [request |-> r, strategy |-> k, error |-> "timeout"] \in errs
                /\ req[r].strm[k].n = 0

\* the requests in flight: handled, loop not finished, context not popped
InFlight == {r \in ReqIds : req[r].st = "running" /\ ~req[r].canc}

\* C20: numOfOngoingResends is the number of handled requests whose loop has
\* not finished and whose context cancelResendsOfNode has not popped; no
\* source maps to an empty set; the count is 0 when no request is in flight
Bookkeeping ==
    /\ bkSize(resends) = Cardinality(InFlight)
    /\ \A node \in DOMAIN resends : resends[node] # {}
    /\ InFlight = {} => bkSize(resends) = 0
    /\ \A r \in ReqIds : Booked(r) <=> r \in InFlight

\* one request is in flight, another was popped and its loop is still running
OneInFlightOnePopped ==
    /\ bkSize(resends) = 1
    /\ \E r \in ReqIds : req[r].st = "running" /\ req[r].canc

\* ------------------------------------------------------------------------
\* Properties of the back pressure
\* ------------------------------------------------------------------------

\* the step is a send the socket has taken, or a drain event, of connection c
EvaluatedOn(c) == bpLast'.c = c /\ bpLast'.op \in {"send", "drain"}

\* what a step on connection c must do about the back pressure
BackPressureStep(c) ==
    LET flag == wsb[c].high
        amount == wsb'[c].buf
        high == ~flag /\ amount > 2 * 1024 * 1024
        low == flag /\ amount < 1024 * 1024
    IN  /\ high => (bpLast'.ev = <<BP_HIGH_EVENT>> /\ wsb'[c].high)
        /\ low => (bpLast'.ev = <<BP_LOW_EVENT>> /\ ~wsb'[c].high)
        /\ (~high /\ ~low) => (bpLast'.ev = <<>> /\ wsb'[c].high = flag)
        /\ \A d \in BpConns \ {c} : wsb'[d] = wsb[d]

\* C10: on every send and every drain event of a connection, the high event
\* is emitted and the flag set exactly when the flag is false and more than
\* 2 MiB are buffered, the low event is emitted and the flag cleared exactly
\* when the flag is true and less than 1 MiB is buffered, and otherwise no
\* event is emitted and the flag stays
BackPressure == [][\A c \in BpConns : EvaluatedOn(c) => BackPressureStep(c)]_vars

\* a drain down to less than 1 MiB has cleared the flag of a connection
\* while the flag of the other stays set with exactly 1 MiB buffered
DrainedLow ==
    \E c \in BpConns, d \in BpConns :
        /\ bpLast = [op |-> "drain", c |-> c, ev |-> <<BP_LOW_EVENT>>]
        /\ ~wsb[c].high
        /\ d # c
        /\ wsb[d].high
        /\ wsb[d].buf = 1024 * 1024

\* ------------------------------------------------------------------------
\* Properties of the endpoint: closes and rejections that change nothing
\* ------------------------------------------------------------------------

\* the step handles the close event of the client end of s, whose reason is
\* DUPLICATE_SOCKET
ClientDuplicateClose(s) ==
    /\ sock[s].cst \in {"rclosing", "lclosing"}
    /\ sock'[s].cst = "closed"
    /\ sock[s].lacks = "none"
    /\ sock[s].crs = DUPLICATE_SOCKET

\* the step handles the close of the server end of s by its peer, whose reason
\* is DUPLICATE_SOCKET
ServerDuplicateClose(s) ==
    /\ sock[s].sst = "rclosing"
    /\ sock'[s].sst = "closed"
    /\ sock[s].lacks = "none"
    /\ sock[s].srs = DUPLICATE_SOCKET
    /\ sock'[s].srs = DUPLICATE_SOCKET

\* the step changes neither the connections nor the peer book and emits no
\* PEER_DISCONNECTED
NothingDisconnected ==
    /\ conn' = conn
    /\ book' = book
    /\ \A j \in 1..Len(emitted') : emitted'[j].ev # PEER_DISCONNECTED

\* the connection of e to a is another socket than s, open at the end of e
WinnerLive(e, a, s) ==
    /\ conn[e][a] \notin {NoSock, s}
    /\ LocallyOpen(IF sock[conn[e][a]].from = e
                   THEN sock[conn[e][a]].cst
                   ELSE sock[conn[e][a]].sst)

\* the close with reason DUPLICATE_SOCKET changes nothing
DuplicateCloseIgnored ==
    [][\A s \in SockIds :
            (ClientDuplicateClose(s) \/ ServerDuplicateClose(s)) => NothingDisconnected]_vars

\* C28: the close of a socket with reason DUPLICATE_SOCKET changes neither the
\* connections nor the peer book and emits no PEER_DISCONNECTED, and when it
\* is received the connection to that address is another socket, which is
\* open
DuplicateCloseWinnerLive ==
    [][\A s \in SockIds :
            /\ ClientDuplicateClose(s) =>
                    NothingDisconnected /\ WinnerLive(sock[s].from, sock[s].to, s)
            /\ ServerDuplicateClose(s) =>
                    NothingDisconnected /\ WinnerLive(sock[s].to, sock[s].from, s)]_vars

\* the step rejects the upgrade of socket s: its server end goes from not yet
\* accepted to closed, the close handler of the socket included
UpgradeRejected(s) ==
    /\ sock[s].sst = "none"
    /\ sock'[s].sst = "closed"

\* C29: a rejected upgrade leaves the connections of the endpoint as they are,
\* the connection to the address the upgrade names included, and no
\* PEER_DISCONNECTED is emitted
RejectionKeepsConnections ==
    [][\A s \in SockIds :
            UpgradeRejected(s) =>
                /\ conn' = conn
                /\ \A j \in 1..Len(emitted') : emitted'[j].ev # PEER_DISCONNECTED]_vars

\* ------------------------------------------------------------------------
\* The topology manager of the tracker
\*
\* An overlay keeps, for each node subscribed to a stream key, the set of its
\* neighbours.  A status of a node names the stream keys the node is subscribed
\* to.  The neighbours a node has are kept; free places, up to the maximum
\* fan-out, are filled with the nodes that have the fewest neighbours and a
\* free place themselves, the earlier inserted first.
\* ------------------------------------------------------------------------

\* maxNeighbours of the configuration
MaxNeighbours == 1

\* instructions sent per stream key
MaxInstructions == 4

StreamKeys == {"s::1", "s::2"}

ovIds(ov) == {ov[j].id : j \in 1..Len(ov)}

ovNbs(ov, n) == ov[CHOOSE j \in 1..Len(ov) : ov[j].id = n].nbs

\* an edge recorded at one of its ends only
ovLinkOneWay(ov, a, b) ==
    [j \in 1..Len(ov) |->
        IF ov[j].id = a THEN [ov[j] EXCEPT !.nbs = @ \cup {b}] ELSE ov[j]]

\* the edge between a and b is added, in both directions
ovLink(ov, a, b) ==
    [j \in 1..Len(ov) |->
        IF ov[j].id = a THEN [ov[j] EXCEPT !.nbs = @ \cup {b}]
        ELSE IF ov[j].id = b THEN [ov[j] EXCEPT !.nbs = @ \cup {a}]
        ELSE ov[j]]

\* a leave that keeps the node in the neighbour sets of the others
ovLeaveOneWay(ov, n) ==
    LET others(x) == x.id # n
    IN  SelectSeq(ov, others)

\* the node leaves the overlay: the vertex and its incident edges are removed
ovLeave(ov, n) ==
    LET others(x) == x.id # n
        rest == SelectSeq(ov, others)
    IN  [j \in 1..Len(rest) |-> [rest[j] EXCEPT !.nbs = @ \ {n}]]

\* the free places of n are filled, the node with the fewest neighbours first,
\* the earlier inserted first among equals; the nodes that may become
\* neighbours of n are not n, not yet its neighbours, and have a free place
RECURSIVE ovFill(_, _)
ovFill(ov, n) ==
    LET cand == {j \in 1..Len(ov) :
                    /\ ov[j].id # n
                    /\ ov[j].id \notin ovNbs(ov, n)
                    /\ Cardinality(ov[j].nbs) < MaxNeighbours}
    IN  IF Cardinality(ovNbs(ov, n)) >= MaxNeighbours \/ cand = {}
        THEN ov
        ELSE LET j == CHOOSE x \in cand :
                        \A y \in cand :
                            \/ Cardinality(ov[x].nbs) < Cardinality(ov[y].nbs)
                            \/ /\ Cardinality(ov[x].nbs) = Cardinality(ov[y].nbs)
                               /\ x <= y
             IN  ovFill(ovLink(ov, n, ov[j].id), n)

\* the overlays with the overlay of key k set to ov, without the key when ov
\* has no node
ovsPut(ovs, k, ov) ==
    IF ov = <<>>
    THEN [x \in DOMAIN ovs \ {k} |-> ovs[x]]
    ELSE [x \in DOMAIN ovs \cup {k} |-> IF x = k THEN ov ELSE ovs[x]]

ovsGet(ovs, k) == IF k \in DOMAIN ovs THEN ovs[k] ELSE <<>>

\* the reconciliation of the overlay of key k with the status of node n; a
\* node that reports the key is made a vertex of the overlay
reconcile(ovs, k, n, reported) ==
    IF reported
    THEN LET ov == ovsGet(ovs, k)
         IN  ovsPut(ovs, k, ovFill(IF n \in ovIds(ov)
                                   THEN ov
                                   ELSE Append(ov, [id |-> n, nbs |-> {}]), n))
    ELSE IF n \in ovIds(ovsGet(ovs, k))
    THEN ovsPut(ovs, k, ovLeave(ovs[k], n))
    ELSE ovs

RECURSIVE reconcileAll(_, _, _, _)
reconcileAll(ovs, todo, n, keys) ==
    IF todo = {}
    THEN ovs
    ELSE LET k == CHOOSE x \in todo : TRUE
         IN  reconcileAll(reconcile(ovs, k, n, k \in keys), todo \ {k}, n, keys)

\* getTopology()
getTopology(ovs) ==
    [k \in DOMAIN ovs |-> [n \in ovIds(ovs[k]) |-> ovNbs(ovs[k], n)]]

\* onStatus(status, node), the status naming the stream keys of the node
Status(n, keys) ==
    /\ \A k \in keys : tcount[k] < MaxInstructions
    /\ overlays' = reconcileAll(overlays, StreamKeys, n, keys)
    /\ tcount' = [k \in StreamKeys |-> IF k \in keys THEN tcount[k] + 1 ELSE tcount[k]]
    /\ instrs' = {[to |-> n, key |-> k, nodes |-> ovNbs(overlays'[k], n),
                   counter |-> tcount[k]] : k \in keys}
    /\ UNCHANGED <<wsVars, resendVars, bpVars, engine, chan, npub, wire, events, posted>>

\* the nodes of the overlay of key k that have n as a neighbour
NeighboursOf(ovs, k, n) ==
    {m \in ovIds(ovsGet(ovs, k)) : n \in ovNbs(ovs[k], m)}

\* onNodeDisconnected(node)
NodeDisconnected(n) ==
    /\ \E k \in DOMAIN overlays : n \in ovIds(overlays[k])
    /\ \A k \in StreamKeys :
            tcount[k] + Cardinality(NeighboursOf(overlays, k, n)) <= MaxInstructions
    /\ overlays' = reconcileAll(overlays, StreamKeys, n, {})
    /\ tcount' = [k \in StreamKeys |->
                    tcount[k] + Cardinality(NeighboursOf(overlays, k, n))]
    /\ instrs' = UNION {{[to |-> m, key |-> k, nodes |-> ovNbs(overlays'[k], m),
                          counter |-> tcount[k] + Cardinality(
                                {x \in NeighboursOf(overlays, k, n) : x < m})]
                            : m \in NeighboursOf(overlays, k, n)} : k \in StreamKeys}
    /\ UNCHANGED <<wsVars, resendVars, bpVars, engine, chan, npub, wire, events, posted>>

TrackerNext ==
    \/ \E n \in Peers, keys \in SUBSET StreamKeys : Status(n, keys)
    \/ \E n \in Peers : NodeDisconnected(n)

\* ------------------------------------------------------------------------
\* Properties of the topology manager
\* ------------------------------------------------------------------------

\* the overlay of k is symmetric and its neighbours are vertices
SymmetricOverlay(ov) ==
    \A a \in ovIds(ov) :
        \A b \in ovNbs(ov, a) :
            /\ b # a
            /\ b \in ovIds(ov)
            /\ a \in ovNbs(ov, b)

Symmetric == \A k \in DOMAIN overlays : SymmetricOverlay(overlays[k])

\* a node joins overlays that hold one node each: in each of them the two
\* nodes become each other's only neighbour
PairsUp ==
    \A a \in Peers, b \in Peers, k \in StreamKeys :
        (/\ a # b
         /\ ovIds(ovsGet(overlays, k)) = {a}
         /\ ovIds(ovsGet(overlays', k)) = {a, b})
            => /\ ovNbs(overlays'[k], a) = {b}
               /\ ovNbs(overlays'[k], b) = {a}

\* C21: after each reconciliation, for every stream key and nodes A and B, B
\* is a neighbour of A if and only if A is a neighbour of B; when a second
\* node reports a stream key, the two nodes are each other's only neighbour
OverlaySymmetry == []Symmetric /\ [][PairsUp]_vars

\* two nodes have reported the two stream keys and are each other's only
\* neighbour in both overlays
TwoSubscribers ==
    \E a \in Peers, b \in Peers :
        /\ a # b
        /\ getTopology(overlays) =
                [k \in StreamKeys |-> [n \in {a, b} |-> IF n = a THEN {b} ELSE {a}]]

\* node n is a vertex of the overlay of key k
InOverlay(ovs, k, n) == n \in ovIds(ovsGet(ovs, k))

\* the step takes node n out of the overlay of key k
Leaves(n, k) == InOverlay(overlays, k, n) /\ ~InOverlay(overlays', k, n)

\* the overlay the node has left: the node is no vertex and in no neighbour
\* set, the remaining nodes keep their other neighbours, an overlay without
\* nodes has no entry
LeftOverlay(n, k) ==
    /\ ovIds(ovsGet(overlays', k)) = ovIds(overlays[k]) \ {n}
    /\ \A m \in ovIds(overlays[k]) \ {n} :
            ovNbs(overlays'[k], m) = ovNbs(overlays[k], m) \ {n}
    /\ ovIds(overlays[k]) = {n} => k \notin DOMAIN getTopology(overlays')
    /\ \A x \in DOMAIN getTopology(overlays') : DOMAIN getTopology(overlays')[x] # {}

\* the overlay of key k is the same after the step
Untouched(k) ==
    /\ k \in DOMAIN overlays' <=> k \in DOMAIN overlays
    /\ ovsGet(overlays', k) = ovsGet(overlays, k)

\* the overlay of key k has lost no vertex and no edge in the step
Kept(k) ==
    \A m \in ovIds(ovsGet(overlays, k)) :
        /\ InOverlay(overlays', k, m)
        /\ ovNbs(overlays[k], m) \subseteq ovNbs(overlays'[k], m)

\* the node leaves an overlay and every overlay it stays in, or is no part
\* of, is the same after the step
LeaveTouchesNothingElse ==
    [][\A n \in Peers, k \in StreamKeys :
            Leaves(n, k) =>
                /\ LeftOverlay(n, k)
                /\ \A k2 \in StreamKeys \ {k} :
                        (InOverlay(overlays, k2, n) <=> InOverlay(overlays', k2, n))
                            => Untouched(k2)]_vars

\* C22: after the status of a node that has unsubscribed from k, the node is
\* no vertex of the overlay of k and is in no neighbour set of it, the
\* remaining nodes keep their other neighbours, an overlay left without nodes
\* is absent from the topology; the overlays the node is no part of are
\* untouched, and an overlay the node stays in loses no vertex and no edge
OverlayCleanup ==
    [][\A n \in Peers, k \in StreamKeys :
            Leaves(n, k) =>
                /\ LeftOverlay(n, k)
                /\ \A k2 \in StreamKeys \ {k} :
                        /\ (~InOverlay(overlays, k2, n) /\ ~InOverlay(overlays', k2, n))
                                => Untouched(k2)
                        /\ (InOverlay(overlays, k2, n) /\ InOverlay(overlays', k2, n))
                                => Kept(k2)]_vars

\* both keys have been reported twice, one overlay is gone and the other
\* still has its two nodes
Unsubscribed ==
    /\ \A k \in StreamKeys : tcount[k] >= 2
    /\ \E k \in StreamKeys :
            /\ DOMAIN getTopology(overlays) = {k}
            /\ Cardinality(DOMAIN getTopology(overlays)[k]) = 2

\* ------------------------------------------------------------------------
\* The node engine
\*
\* A node keeps, for each stream key it is subscribed to, the inbound and the
\* outbound neighbours, the last message reference of each chain and the
\* counter of the last instruction.  Sockets deliver in order; a closed
\* socket delivers what was sent before the close and then the close.
\* ------------------------------------------------------------------------

MaxTimestamp == 1

MaxSequence == 1

\* publish calls
MaxPublish == 2

\* counters of the instructions given to a node
MaxCounter == 2

\* messages in flight on a socket when a node starts an operation
MaxInFlight == 2

\* (publisherId, msgChainId)
Chains == {"p", "q"}

\* (timestamp, sequenceNumber)
Refs == (0..MaxTimestamp) \X (0..MaxSequence)

NoRef == <<-1, 0>>

refLess(r, s) == r[1] < s[1] \/ (r[1] = s[1] /\ r[2] < s[2])

NoStream ==
    [inb |-> {}, outb |-> {}, last |-> [c \in Chains |-> NoRef], counter |-> -1]

NoNode == [streams |-> <<>>, conn |-> {}, recvd |-> <<>>, disc |-> {}, pub |-> {}]

Msg(t, k, c, r) == [t |-> t, key |-> k, chain |-> c, ref |-> r]

Net == [node |-> engine, chan |-> chan]

NodeCommit(S) ==
    /\ engine' = S.node
    /\ chan' = S.chan
    /\ UNCHANGED <<wsVars, resendVars, bpVars, overlays, tcount, wire, events, posted>>

\* PEER_DISCONNECTED of the endpoint: the peer leaves every neighbour set and
\* NODE_DISCONNECTED names it
onNodeDisconnected(nd, p) ==
    [nd EXCEPT !.conn = @ \ {p},
               !.disc = @ \cup {p},
               !.streams = [k \in DOMAIN nd.streams |->
                               [nd.streams[k] EXCEPT !.inb = @ \ {p},
                                                     !.outb = @ \ {p}]]]

\* a message is sent to a connected neighbour
sendTo(S, a, b, m) ==
    IF b \in S.node[a].conn THEN [S EXCEPT !.chan[a][b] = Append(@, m)] ELSE S

RECURSIVE sendEach(_, _, _, _)
sendEach(S, a, todo, m) ==
    IF todo = {}
    THEN S
    ELSE LET b == CHOOSE x \in todo : TRUE
         IN  sendEach(sendTo(S, a, b, m), a, todo \ {b}, m)

\* the socket to the peer is closed: what the peer has sent and is in flight
\* is lost, the peer sees the close after what was sent to it
disconnectFromNode(S, a, b) ==
    [S EXCEPT !.node[a] = onNodeDisconnected(@, b),
              !.chan[a][b] = Append(@, Msg("close", "", "", NoRef)),
              !.chan[b][a] = <<>>]

\* the socket is kept whatever streams are shared
keepNode(S, a, b) == S

\* disconnect if no shared streams remain
disconnectIfNoSharedStreams(S, a, b) ==
    IF /\ b \in S.node[a].conn
       /\ \A k \in DOMAIN S.node[a].streams :
            b \notin S.node[a].streams[k].inb \cup S.node[a].streams[k].outb
    THEN disconnectFromNode(S, a, b)
    ELSE S

RECURSIVE reevaluateEach(_, _, _)
reevaluateEach(S, a, todo) ==
    IF todo = {}
    THEN S
    ELSE LET b == CHOOSE x \in todo : TRUE
         IN  reevaluateEach(disconnectIfNoSharedStreams(S, a, b), a, todo \ {b})

\* subscribe(streamId, partition)
subscribe(S, a, k) ==
    IF k \in DOMAIN S.node[a].streams
    THEN S
    ELSE [S EXCEPT !.node[a].streams =
                [x \in DOMAIN @ \cup {k} |-> IF x = k THEN NoStream ELSE @[x]]]

\* unsubscribe(streamId, partition)
unsubscribe(S, a, k) ==
    LET st == S.node[a].streams[k]
        nbs == st.inb \cup st.outb
        S1 == sendEach(S, a, nbs, Msg("unsubscribe", k, "", NoRef))
        S2 == [S1 EXCEPT !.node[a].streams = [x \in DOMAIN @ \ {k} |-> @[x]]]
    IN  reevaluateEach(S2, a, nbs)

\* a check that also takes the reference seen last
freshOrSame(st, m) == ~refLess(m.ref, st.last[m.chain])

\* the duplicate check against lastMsgByChain
fresh(st, m) == refLess(st.last[m.chain], m.ref)

\* publish(streamMessage)
publish(S, a, m) ==
    LET st == S.node[a].streams[m.key]
    IN  IF ~fresh(st, m)
        THEN S
        ELSE sendEach([S EXCEPT !.node[a].streams[m.key].last[m.chain] = m.ref,
                                !.node[a].pub = @ \cup {m}],
                      a, st.outb, m)

\* onData that takes data of a key the node has no stream of
onDataUnfiltered(S, b, a, m) ==
    [S EXCEPT !.node[b].recvd = Append(@, m)]

\* onData(msg, source)
onData(S, b, a, m) ==
    IF m.key \notin DOMAIN S.node[b].streams
    THEN S
    ELSE LET st == S.node[b].streams[m.key]
         IN  IF a \notin st.inb \/ ~fresh(st, m)
             THEN S
             ELSE sendEach([S EXCEPT !.node[b].streams[m.key].last[m.chain] = m.ref,
                                     !.node[b].recvd = Append(@, m)],
                           b, st.outb \ {a}, m)

\* onSubscribe(req, source)
onSubscribe(S, b, a, k) ==
    IF k \in DOMAIN S.node[b].streams
    THEN [S EXCEPT !.node[b].streams[k].inb = @ \cup {a}]
    ELSE S

\* onUnsubscribe(req, source)
onUnsubscribe(S, b, a, k) ==
    LET S1 == IF k \in DOMAIN S.node[b].streams
              THEN [S EXCEPT !.node[b].streams[k].inb = @ \ {a},
                             !.node[b].streams[k].outb = @ \ {a}]
              ELSE S
    IN  disconnectIfNoSharedStreams(S1, b, a)

\* connect, then sendSubscribe and outbound
RECURSIVE subscribeEach(_, _, _, _)
subscribeEach(S, a, todo, k) ==
    IF todo = {}
    THEN S
    ELSE LET b == CHOOSE x \in todo : TRUE
             S1 == [S EXCEPT !.node[a].conn = @ \cup {b},
                             !.node[b].conn = @ \cup {a}]
             S2 == sendTo(S1, a, b, Msg("subscribe", k, "", NoRef))
         IN  subscribeEach([S2 EXCEPT !.node[a].streams[k].outb = @ \cup {b}],
                           a, todo \ {b}, k)

\* onInstruction that takes every counter
onInstructionAnyCounter(S, a, k, c, nodes) ==
    LET st == S.node[a].streams[k]
        target == nodes \ {a}
        S1 == [S EXCEPT !.node[a].streams[k].counter = c]
        S2 == subscribeEach(S1, a, target \ st.outb, k)
        S3 == sendEach(S2, a, st.outb \ target, Msg("unsubscribe", k, "", NoRef))
    IN  [S3 EXCEPT !.node[a].streams[k].outb = @ \ (st.outb \ target)]

\* onInstruction(instr, trackerId)
onInstruction(S, a, k, c, nodes) ==
    IF c < S.node[a].streams[k].counter
    THEN S
    ELSE onInstructionAnyCounter(S, a, k, c, nodes)

\* the node has at most MaxInFlight - 1 messages in flight to each peer, and
\* no close is in flight between the node and the peers it is to connect to
Quiet(n, peers) ==
    /\ \A b \in Peers : Len(chan[n][b]) < MaxInFlight
    /\ \A b \in peers :
            /\ \A j \in 1..Len(chan[n][b]) : chan[n][b][j].t # "close"
            /\ \A j \in 1..Len(chan[b][n]) : chan[b][n][j].t # "close"

Subscribe(n, k) ==
    /\ NodeCommit(subscribe(Net, n, k))
    /\ instrs' = {}
    /\ UNCHANGED npub

Unsubscribe(n, k) ==
    /\ k \in DOMAIN engine[n].streams
    /\ Quiet(n, {})
    /\ NodeCommit(unsubscribe(Net, n, k))
    /\ instrs' = {}
    /\ UNCHANGED npub

Publish(n, k, c, r) ==
    /\ k \in DOMAIN engine[n].streams
    /\ npub < MaxPublish
    /\ Quiet(n, {})
    /\ NodeCommit(publish(Net, n, Msg("data", k, c, r)))
    /\ instrs' = {}
    /\ npub' = npub + 1

Instruction(n, k, c, nodes) ==
    /\ k \in DOMAIN engine[n].streams
    /\ Quiet(n, nodes)
    /\ NodeCommit(onInstruction(Net, n, k, c, nodes))
    /\ instrs' = {[to |-> n, key |-> k, nodes |-> nodes, counter |-> c]}
    /\ UNCHANGED npub

\* the next message of the socket from a to b is handled by b
Receive(a, b) ==
    /\ chan[a][b] # <<>>
    /\ LET m == Head(chan[a][b])
           S == [Net EXCEPT !.chan[a][b] = Tail(@)]
       IN  NodeCommit(
               CASE m.t = "data" -> onData(S, b, a, m)
                 [] m.t = "subscribe" -> onSubscribe(S, b, a, m.key)
                 [] m.t = "unsubscribe" -> onUnsubscribe(S, b, a, m.key)
                 [] m.t = "close" ->
                        IF a \in S.node[b].conn
                        THEN [S EXCEPT !.node[b] = onNodeDisconnected(@, a),
                                       !.chan[b][a] = <<>>]
                        ELSE S)
    /\ instrs' = {}
    /\ UNCHANGED npub

\* two connected nodes unsubscribe and publish
ShareNext ==
    \/ \E n \in Active, k \in StreamKeys : Unsubscribe(n, k)
    \/ \E n \in Active, k \in StreamKeys, r \in Refs : Publish(n, k, "p", r)
    \/ \E a \in Active, b \in Active : Receive(a, b)

\* nodes subscribe and are given instructions
InstrNext ==
    \/ \E n \in Active : Subscribe(n, "s::1")
    \/ \E n \in Active, c \in 0..MaxCounter, nodes \in SUBSET Active :
            Instruction(n, "s::1", c, nodes)
    \/ \E a \in Active, b \in Active : Receive(a, b)

\* the nodes of a stream publish and forward
DataNext ==
    \/ \E n \in Active, c \in Chains, r \in Refs : Publish(n, "s::1", c, r)
    \/ \E a \in Peers, b \in Peers : Receive(a, b)

\* ------------------------------------------------------------------------
\* Properties of the node engine
\* ------------------------------------------------------------------------

Subscribed(n) == DOMAIN engine[n].streams

\* the number of times the local subscriber of n was given m
TimesReceived(n, m) ==
    Cardinality({j \in 1..Len(engine[n].recvd) : engine[n].recvd[j] = m})

\* what the step gives to a local subscriber is one message of a key the
\* node is subscribed to, and one it was not given before
FilteredStep ==
    \A b \in Active :
        engine'[b].recvd # engine[b].recvd =>
            \E m \in {Msg("data", k, c, r) : k \in StreamKeys, c \in Chains, r \in Refs} :
                /\ engine'[b].recvd = Append(engine[b].recvd, m)
                /\ m.key \in Subscribed(b)
                /\ TimesReceived(b, m) = 0

\* a message a has published for a key b is subscribed to, and that is not in
\* flight, was given to the local subscriber of b once; b publishes nothing on
\* that chain itself
DeliveredOnce ==
    \A a \in Active, b \in Active :
        \A m \in engine[a].pub :
            (/\ a # b
             /\ m.key \in Subscribed(b)
             /\ \A j \in 1..Len(chan[a][b]) : chan[a][b][j] # m
             /\ \A x \in engine[b].pub : x.key # m.key \/ x.chain # m.chain)
                => TimesReceived(b, m) = 1

\* C23: after B has unsubscribed from k2 and stays subscribed to k1, what A
\* publishes for k2 is never given to B's local subscriber, and what A
\* publishes for k1 is given to it exactly once
SubscriptionFiltering == [][FilteredStep]_vars /\ []DeliveredOnce

\* node 2 has unsubscribed from s::2, node 1 has published for both keys, and
\* the local subscriber of node 2 has the message of s::1 only
PartialUnsubscribe ==
    /\ Subscribed(2) = {"s::1"}
    /\ {m.key : m \in engine[1].pub} = StreamKeys
    /\ Len(engine[2].recvd) = 1
    /\ engine[2].recvd[1].key = "s::1"

\* the step closes no socket between nodes that share a key after it
KeepStep ==
    \A a \in Active, b \in Active :
        (a # b /\ b \in engine[a].conn /\ Subscribed(a)' \cap Subscribed(b)' # {})
            => b \in engine'[a].conn

\* the socket between the two nodes is closed and each has emitted
\* NODE_DISCONNECTED for the other
Apart(a, b) ==
    /\ b \notin engine[a].conn
    /\ a \notin engine[b].conn
    /\ b \in engine[a].disc
    /\ a \in engine[b].disc

\* C24: once two connected nodes share no subscribed stream key, the socket
\* between them is eventually closed and both emit NODE_DISCONNECTED naming
\* the other; while they share a key the socket is kept
NoSharedStreams ==
    /\ [][KeepStep]_vars
    /\ (Subscribed(1) \cap Subscribed(2) = {}) ~> Apart(1, 2)

\* each node has kept one key, not the other's, and they are disconnected
SharedNothing ==
    /\ Subscribed(1) = {"s::2"}
    /\ Subscribed(2) = {"s::1"}
    /\ Apart(1, 2)

\* the instruction of the step is dropped: no stream of the node and no
\* socket is changed
Dropped(i) ==
    /\ engine'[i.to] = engine[i.to]
    /\ chan' = chan

\* the instruction of the step is followed: the counter is the instruction's
\* and the outbound neighbours are the named nodes
Followed(i) ==
    /\ engine'[i.to].streams[i.key].counter = i.counter
    /\ engine'[i.to].streams[i.key].outb = i.nodes \ {i.to}

\* every instruction that is not dropped makes the counter larger
CounterStrictlyIncreases ==
    [][\A i \in instrs' :
            \/ i.counter < engine[i.to].streams[i.key].counter /\ Dropped(i)
            \/ engine'[i.to].streams[i.key].counter
                    > engine[i.to].streams[i.key].counter]_vars

\* C25: an instruction whose counter is smaller than the stored one is
\* dropped and changes neither the counter nor the neighbour sets; any other
\* instruction is followed, and the stored counter never decreases: it grows
\* unless the instruction has the stored counter
InstructionCounters ==
    [][\A i \in instrs' :
            LET old == engine[i.to].streams[i.key].counter
            IN  /\ i.counter < old => Dropped(i)
                /\ i.counter >= old => Followed(i)
                /\ engine'[i.to].streams[i.key].counter >= old
                /\ i.counter > old => engine'[i.to].streams[i.key].counter > old]_vars

\* an instruction with a smaller counter than the stored one has named other
\* neighbours than the node has
CounterRegression ==
    \E i \in instrs :
        /\ i.key \in Subscribed(i.to)
        /\ i.counter < engine[i.to].streams[i.key].counter
        /\ engine[i.to].streams[i.key].outb # i.nodes \ {i.to}

\* the local subscriber of each node sees each chain in strictly increasing
\* order
Ordered ==
    \A n \in Peers :
        \A i \in 1..Len(engine[n].recvd), j \in 1..Len(engine[n].recvd) :
            (/\ i < j
             /\ engine[n].recvd[i].key = engine[n].recvd[j].key
             /\ engine[n].recvd[i].chain = engine[n].recvd[j].chain)
                => refLess(engine[n].recvd[i].ref, engine[n].recvd[j].ref)

\* data that is not later than the last reference of its chain is neither
\* given to the local subscriber nor forwarded
StaleDropped ==
    \A a \in Peers, b \in Peers :
        (/\ chan[a][b] # <<>>
         /\ chan'[a][b] = Tail(chan[a][b])
         /\ Head(chan[a][b]).t = "data"
         /\ Head(chan[a][b]).key \in Subscribed(b)
         /\ ~refLess(engine[b].streams[Head(chan[a][b]).key].last[Head(chan[a][b]).chain],
                     Head(chan[a][b]).ref))
            => /\ engine'[b] = engine[b]
               /\ \A c \in Peers : chan'[b][c] = chan[b][c]

\* C26: for every chain the local subscriber sees the messages in strictly
\* increasing (timestamp, sequenceNumber) order and none twice, whatever the
\* interleaving of publish calls and of data from several inbound neighbours;
\* a message that arrives out of order is dropped and not forwarded
OrderedDelivery == []Ordered /\ [][StaleDropped]_vars

\* a node was given two messages of one chain from its two neighbours, and
\* nothing is in flight any more
BothDelivered ==
    /\ \A a \in Peers, b \in Peers : chan[a][b] = <<>>
    /\ \E n \in Peers :
            /\ Len(engine[n].recvd) = 2
            /\ engine[n].recvd[1].chain = engine[n].recvd[2].chain

\* ------------------------------------------------------------------------
\* The protocol adapters
\*
\* An adapter gives the endpoint the encoded control message and the peer id
\* of the recipient; the adapter of the recipient decodes what the endpoint
\* emits as MESSAGE_RECEIVED and emits the event of the control type with the
\* peer id of the sender.  The two endpoints are connected.
\* ------------------------------------------------------------------------

\* control messages given to the adapters
MaxSends == 2

\* the event of each control type
EventOf ==
    [BroadcastMessage |-> "DATA_RECEIVED",
     UnicastMessage |-> "UNICAST_RECEIVED",
     SubscribeRequest |-> "SUBSCRIBE_REQUEST",
     UnsubscribeRequest |-> "UNSUBSCRIBE_REQUEST",
     ResendLastRequest |-> "RESEND_REQUEST",
     ResendFromRequest |-> "RESEND_REQUEST",
     ResendRangeRequest |-> "RESEND_REQUEST",
     ResendResponseResending |-> "RESEND_RESPONSE",
     ResendResponseResent |-> "RESEND_RESPONSE",
     ResendResponseNoResend |-> "RESEND_RESPONSE",
     StatusMessage |-> "NODE_STATUS_RECEIVED",
     InstructionMessage |-> "TRACKER_INSTRUCTION_RECEIVED",
     StorageNodesRequest |-> "STORAGE_NODES_REQUEST",
     StorageNodesResponse |-> "STORAGE_NODES_RESPONSE_RECEIVED"]

\* the advertised address of a peer, as the peer book has it
AddressOf(n) == <<"ws", n>>

\* the control message of a call: sendInstruction and
\* sendStorageNodesResponse are given node ids and send their addresses
\* (fields a type does not have are empty)
controlMessage(type, k, ids, c) ==
    [type |-> type,
     key |-> k,
     nodeAddresses |-> IF type \in {"InstructionMessage", "StorageNodesResponse"}
                       THEN {AddressOf(n) : n \in ids}
                       ELSE {},
     counter |-> IF type = "InstructionMessage" THEN c ELSE 0]

\* the frame of a control message: the tag, then the fields
encode(msg) == <<msg.type, msg.key, msg.nodeAddresses, msg.counter>>

decode(frame) ==
    [type |-> frame[1], key |-> frame[2], nodeAddresses |-> frame[3], counter |-> frame[4]]

\* an adapter that reports its own peer id as the source
adapterReceiveOwnId(at, from, frame) ==
    [at |-> at, event |-> EventOf[decode(frame).type], source |-> at, msg |-> decode(frame)]

\* the event the adapter of peer at emits for a frame the endpoint has
\* received from peer from
adapterReceive(at, from, frame) ==
    [at |-> at, event |-> EventOf[decode(frame).type], source |-> from, msg |-> decode(frame)]

\* a control message is given to the adapter of peer from, for peer to
AdapterSend(from, to, type, k, ids, c) ==
    /\ from # to
    /\ Len(posted) < MaxSends
    /\ ids # {} => type \in {"InstructionMessage", "StorageNodesResponse"}
    /\ c # 0 => type = "InstructionMessage"
    /\ posted' = Append(posted, [from |-> from, to |-> to, type |-> type,
                                  key |-> k, ids |-> ids, counter |-> c])
    /\ wire' = Append(wire, [from |-> from, to |-> to,
                              frame |-> encode(controlMessage(type, k, ids, c))])
    /\ UNCHANGED <<events, wsVars, resendVars, bpVars,
                   overlays, tcount, instrs, engine, chan, npub>>

\* the endpoint of the recipient receives frame j: the first in flight on
\* its socket
AdapterReceive(j) ==
    /\ j \in 1..Len(wire)
    /\ \A i \in 1..(j - 1) : wire[i].from # wire[j].from \/ wire[i].to # wire[j].to
    /\ events' = Append(events, adapterReceive(wire[j].to, wire[j].from, wire[j].frame))
    /\ wire' = [i \in 1..(Len(wire) - 1) |-> IF i < j THEN wire[i] ELSE wire[i + 1]]
    /\ UNCHANGED <<posted, wsVars, resendVars, bpVars,
                   overlays, tcount, instrs, engine, chan, npub>>

AdapterNext ==
    \/ \E from \in Active, to \in Active, type \in DOMAIN EventOf, k \in StreamKeys,
           ids \in SUBSET Active, c \in 0..MaxCounter :
            AdapterSend(from, to, type, k, ids, c)
    \/ \E j \in 1..MaxSends : AdapterReceive(j)

\* ------------------------------------------------------------------------
\* Properties of the protocol adapters
\* ------------------------------------------------------------------------

\* the event a control message given to an adapter is received as
Expected(p) ==
    [at |-> p.to, event |-> EventOf[p.type], source |-> p.from,
     msg |-> [type |-> p.type, key |-> p.key,
              nodeAddresses |-> {AddressOf(n) : n \in p.ids},
              counter |-> p.counter]]

\* the number of the elements of sequence s that are x
Times(s, x) == Cardinality({j \in 1..Len(s) : s[j] = x})

Init ==
    /\ conn = [e \in Peers |-> [a \in Peers |-> NoSock]]
    /\ pend = [e \in Peers |-> {}]
    /\ book = [e \in Peers |-> {}]
    /\ sock = [s \in SockIds |-> NoSocket]
    /\ nsock = 0
    /\ emitted = <<>>
    /\ lastEvent = [e \in Peers |-> [a \in Peers |-> "none"]]
    /\ deferred = {}
    /\ stopped = [e \in Peers |-> "no"]
    /\ sent = NoSend
    /\ req = [r \in ReqIds |-> NoRequest]
    /\ resends = <<>>
    /\ errs = {}
    /\ returned = <<>>
    /\ nreq = 0
    /\ strategiesStopped = {}
    /\ wsb = [c \in BpConns |-> [buf |-> 0, high |-> FALSE, live |-> TRUE]]
    /\ bpLast = [op |-> "none", c |-> 0, ev |-> <<>>]
    /\ overlays = <<>>
    /\ tcount = [k \in StreamKeys |-> 0]
    /\ instrs = {}
    /\ engine = [n \in Peers |-> NoNode]
    /\ chan = [a \in Peers |-> [b \in Peers |-> <<>>]]
    /\ npub = 0
    /\ wire = <<>>
    /\ events = <<>>
    /\ posted = <<>>

\* the state after p and q have both called connect() for the other
DialInit ==
    \E p \in Peers, q \in Peers :
        /\ p # q
        /\ conn = [e \in Peers |-> [a \in Peers |-> NoSock]]
        /\ pend = [e \in Peers |-> IF e = p THEN {q} ELSE IF e = q THEN {p} ELSE {}]
        /\ book = [e \in Peers |-> {}]
        /\ sock = [s \in SockIds |->
                    IF s = 1
                    THEN [NoSocket EXCEPT !.from = p, !.to = q,
                                          !.cst = "connecting", !.res = "pending"]
                    ELSE IF s = 2
                    THEN [NoSocket EXCEPT !.from = q, !.to = p,
                                          !.cst = "connecting", !.res = "pending"]
                    ELSE NoSocket]
        /\ nsock = 2
        /\ emitted = <<>>
        /\ lastEvent = [e \in Peers |-> [a \in Peers |-> "none"]]
        /\ deferred = {}
        /\ stopped = [e \in Peers |-> "no"]
        /\ sent = NoSend
        /\ req = [r \in ReqIds |-> NoRequest]
        /\ resends = <<>>
        /\ errs = {}
        /\ returned = <<>>
        /\ nreq = 0
        /\ strategiesStopped = {}
        /\ wsb = [c \in BpConns |-> [buf |-> 0, high |-> FALSE, live |-> TRUE]]
        /\ bpLast = [op |-> "none", c |-> 0, ev |-> <<>>]
        /\ overlays = <<>>
        /\ tcount = [k \in StreamKeys |-> 0]
        /\ instrs = {}
        /\ engine = [n \in Peers |-> NoNode]
        /\ chan = [a \in Peers |-> [b \in Peers |-> <<>>]]
        /\ npub = 0
        /\ wire = <<>>
        /\ events = <<>>
        /\ posted = <<>>

\* two nodes after both have subscribed to the two keys and followed the
\* instructions that name the other
ShareInit ==
    /\ engine = [n \in Peers |->
                    IF n \in Active
                    THEN [NoNode EXCEPT
                            !.conn = Active \ {n},
                            !.streams = [k \in StreamKeys |->
                                            [NoStream EXCEPT !.inb = Active \ {n},
                                                             !.outb = Active \ {n}]]]
                    ELSE NoNode]
    /\ conn = [e \in Peers |-> [a \in Peers |-> NoSock]]
    /\ pend = [e \in Peers |-> {}]
    /\ book = [e \in Peers |-> {}]
    /\ sock = [s \in SockIds |-> NoSocket]
    /\ nsock = 0
    /\ emitted = <<>>
    /\ lastEvent = [e \in Peers |-> [a \in Peers |-> "none"]]
    /\ deferred = {}
    /\ stopped = [e \in Peers |-> "no"]
    /\ sent = NoSend
    /\ req = [r \in ReqIds |-> NoRequest]
    /\ resends = <<>>
    /\ errs = {}
    /\ returned = <<>>
    /\ nreq = 0
    /\ strategiesStopped = {}
    /\ wsb = [c \in BpConns |-> [buf |-> 0, high |-> FALSE, live |-> TRUE]]
    /\ bpLast = [op |-> "none", c |-> 0, ev |-> <<>>]
    /\ overlays = <<>>
    /\ tcount = [k \in StreamKeys |-> 0]
    /\ instrs = {}
    /\ chan = [a \in Peers |-> [b \in Peers |-> <<>>]]
    /\ npub = 0
    /\ wire = <<>>
    /\ events = <<>>
    /\ posted = <<>>

\* the nodes after all have subscribed to one key and followed instructions
\* that name the others
MeshInit ==
    /\ engine = [n \in Peers |->
                    [NoNode EXCEPT
                        !.conn = Peers \ {n},
                        !.streams = [k \in {"s::1"} |->
                                        [NoStream EXCEPT !.inb = Peers \ {n},
                                                         !.outb = Peers \ {n}]]]]
    /\ conn = [e \in Peers |-> [a \in Peers |-> NoSock]]
    /\ pend = [e \in Peers |-> {}]
    /\ book = [e \in Peers |-> {}]
    /\ sock = [s \in SockIds |-> NoSocket]
    /\ nsock = 0
    /\ emitted = <<>>
    /\ lastEvent = [e \in Peers |-> [a \in Peers |-> "none"]]
    /\ deferred = {}
    /\ stopped = [e \in Peers |-> "no"]
    /\ sent = NoSend
    /\ req = [r \in ReqIds |-> NoRequest]
    /\ resends = <<>>
    /\ errs = {}
    /\ returned = <<>>
    /\ nreq = 0
    /\ strategiesStopped = {}
    /\ wsb = [c \in BpConns |-> [buf |-> 0, high |-> FALSE, live |-> TRUE]]
    /\ bpLast = [op |-> "none", c |-> 0, ev |-> <<>>]
    /\ overlays = <<>>
    /\ tcount = [k \in StreamKeys |-> 0]
    /\ instrs = {}
    /\ chan = [a \in Peers |-> [b \in Peers |-> <<>>]]
    /\ npub = 0
    /\ wire = <<>>
    /\ events = <<>>
    /\ posted = <<>>

\* two endpoints that have dialled each other, and the layer above sending
SendNext ==
    \/ \E s \in SockIds : Accept(s)
    \/ \E s \in SockIds : ClientOpen(s)
    \/ \E s \in SockIds : ClientCloseEvent(s)
    \/ \E s \in SockIds : ServerCloseEvent(s)
    \/ \E e \in Peers, a \in Peers : Close(e, a, GRACEFUL_SHUTDOWN)
    \/ \E e \in Peers, a \in Peers, o \in {"sent", "raise", "cberr"} : Send(e, a, o)

\* two endpoints that have dialled each other, their liveness timers, which
\* no pong answers, and stop()
StopNext ==
    \/ \E s \in SockIds : Accept(s)
    \/ \E s \in SockIds : ClientOpen(s)
    \/ \E s \in SockIds : ConnectError(s)
    \/ \E s \in SockIds : ClientCloseEvent(s)
    \/ \E s \in SockIds : ServerCloseEvent(s)
    \/ \E e \in {sock[1].from, sock[1].to} : PingTick(e)
    \/ \E e \in {sock[1].from, sock[1].to} : Stop(e)
    \/ \E e \in Peers : StopGrace(e)

\* endpoints dialling each other and programs that are not endpoints
ConnNext ==
    \/ \E e \in Active, a \in Active : Connect(e, a)
    \/ \E s \in SockIds : Accept(s)
    \/ \E s \in SockIds : AcceptSilent(s)
    \/ \E e \in Active, a \in Active \cup {0}, l \in Lacking : IncomingBare(e, a, l)
    \/ \E s \in SockIds : ClientOpen(s)
    \/ \E s \in SockIds : ConnectError(s)
    \/ \E s \in SockIds : ClientCloseEvent(s)
    \/ \E s \in SockIds : ServerCloseEvent(s)

\* two endpoints that have dialled each other, with their liveness timers
PingNext ==
    \/ DialNext
    \/ \E e \in Peers : PingTick(e)
    \/ \E s \in SockIds : PongClient(s)
    \/ \E s \in SockIds : PongServer(s)

\* the endpoint: dials, accepts, closes
SpecWs == Init /\ [][WsNext]_vars

\* two endpoints that have dialled each other
SpecDial == DialInit /\ [][DialNext]_vars

\* two endpoints that have dialled each other, with their liveness timers
SpecPing == DialInit /\ [][PingNext]_vars
SpecSend == DialInit /\ [][SendNext]_vars

\* two endpoints that have dialled each other, and frames arriving
RecvNext ==
    \/ \E s \in SockIds : Accept(s)
    \/ \E s \in SockIds : ClientOpen(s)
    \/ \E s \in SockIds : ClientCloseEvent(s)
    \/ \E s \in SockIds : ServerCloseEvent(s)
    \/ \E e \in Peers, a \in Peers : Close(e, a, GRACEFUL_SHUTDOWN)
    \/ \E s \in SockIds : ClientMessage(s)
    \/ \E s \in SockIds : DeferredReceive(s)
    \/ \E s \in SockIds : ServerMessage(s)

SpecRecv == DialInit /\ [][RecvNext]_vars
\* the timer stop() arms with setTimeout fires
SpecStop == DialInit /\ [][StopNext]_vars /\ \A e \in Peers : WF_vars(StopGrace(e))
SpecConn == Init /\ [][ConnNext]_vars

\* the resend loop of one request
SpecResend == Init /\ [][ResendNext]_vars

\* the interval timers fire and the close event of a destroyed stream is
\* delivered
SpecResendFair ==
    /\ Init
    /\ [][ResendNext]_vars
    /\ \A r \in ReqIds, k \in StratIds :
            WF_vars(IntervalTick(r, k)) /\ WF_vars(StreamClose(r, k))

\* the bookkeeping of several requests
SpecBook == Init /\ [][BookNext]_vars

\* the bookkeeping of several requests, and stop()
HaltNext ==
    \/ BookNext
    \/ ResendStop

SpecHalt == Init /\ [][HaltNext]_vars

\* the back pressure of connections
SpecBp == Init /\ [][BpNext]_vars

\* the topology manager of the tracker
SpecTracker == Init /\ [][TrackerNext]_vars

\* the node engine
SpecShare ==
    /\ ShareInit
    /\ [][ShareNext]_vars
    /\ \A a \in Active, b \in Active : WF_vars(Receive(a, b))

SpecInstr == Init /\ [][InstrNext]_vars

\* the protocol adapters
SpecAdapter == Init /\ [][AdapterNext]_vars

SpecData == MeshInit /\ [][DataNext]_vars

====
